---- MODULE Spec2Model ----
(***************************************************************************)
(* Container manager of the Discord bot manager: the bot registry with its *)
(* deferred write queue, the build / start / stop / restart / pull /       *)
(* create / update / delete operations and the per-bot log collector.      *)
(*                                                                         *)
(* The process is a single-threaded event loop.  A handler runs one        *)
(* synchronous segment at a time; `await` ends a segment.  A promise that  *)
(* is already settled resumes its awaiter through the microtask queue      *)
(* (variable micro, FIFO); a promise settled by a subprocess or a timer    *)
(* resumes it from a new macrotask, which the loop only starts once the    *)
(* microtask queue is empty.                                               *)
(***************************************************************************)
EXTENDS Integers, Sequences, FiniteSets, TLC

\* ------------------------------------------------------------------ bounds
MaxOps == 2          \* API calls issued in one behaviour, overlapping
MaxSerial == 3       \* API calls issued in one behaviour, one after another
MaxAppends == 2003   \* addLog calls in one behaviour of the log collector
MaxLive == 2         \* addLog calls while the stream client is connected
MaxDoc == 5          \* tokens of a compose text that is substituted
MaxVal == 1          \* tokens of the value of a bot's variable
MaxText == 4         \* tokens of a text with any placeholders
MaxRaw == 2          \* tokens of a value that may hold '$'
MaxEntries == 2      \* entries of a list or a mapping of a compose document
MaxLines == 4        \* lines of a compose text that is no compose file
MaxWrites == 4       \* saveRegistry calls looked at in the write queue
MaxGets == 3         \* getDeploymentMode calls looked at in the mode specification
MaxSets == 2         \* setDeploymentMode and clearCache calls looked at
MaxCalls == 2        \* API calls issued in one behaviour of SpecLive
MaxCompose == 4      \* tokens of a compose text whose variables are validated

\* ------------------------------------------------------- program constants
maxLogs == 2000

\* deployApp: seconds between SIGTERM and the check for SIGKILL (5000 ms)
graceS == 5
\* deployApp is called with a timeout of 1..MaxTimeout seconds
MaxTimeout == 4

BotIds == {"A", "B"}
OpIds == 1..(IF MaxOps > MaxSerial THEN MaxOps ELSE MaxSerial)

\* Container ids: the one `docker create` makes for a bot, and the one of
\* its compose project.
DockerCid == 1
ComposeCid == 2

VARIABLES
  file,        \* bots.json: bot id -> BotConfig (exists = FALSE: no entry)
  micro,       \* microtask queue of the event loop
  wq,          \* write callbacks registered on a still pending writeQueue
  wbusy,       \* the promise held by writeQueue is pending
  ops,         \* call frame of every API call issued so far
  nops,        \* number of API calls issued
  log,         \* logCollectors: bot id -> buffered entries
  lgen,        \* bot id -> number of collectors removed for it
  composeFile, \* bot id -> <botDir>/docker-compose.yml exists
  cachedMode,  \* detector.ts cachedMode ("none" = null)
  hostMode,    \* what auto-detection finds on this host
  live,        \* bot id -> containers that exist in the runtime
  ideal,       \* history: the registry with every update applied when issued
  deleted,     \* history: bots whose deletion has been written to bots.json
  lastRet,     \* history: the latest return of build / start / stop / pull
  serial,      \* every API call waits for the previous one to complete
  logged,      \* the log buffers are part of the state
  boot,        \* startup: position of main() in syncContainerStates
  post,        \* history: bot id -> what became of its post-install command
  image,       \* bot id -> the image bot-<id>:latest exists
  dp,          \* one call of casaosApi.deployApp (deploy specification)
  sse,         \* one client of GET /:id/build-logs (stream specification)
  sub,         \* a compose text and its substitutions (substitution spec.)
  doc,         \* a compose document and its transforms (document spec.)
  logs,        \* a LogCollector's buffer (log collector specification)
  nadd,        \* addLog calls since the last clear()
  wst,         \* writeQueue with writes that can fail (write queue spec.)
  det          \* detector.ts: config.json and the calls (mode spec.)

vars == <<file, micro, wq, wbusy, ops, nops, log, lgen, composeFile,
          cachedMode, hostMode, live, ideal, deleted, lastRet, serial, logged,
          boot, post, image, dp, sse, sub, doc, logs, nadd,
          wst, det>>

\* --------------------------------------------------------------- registry
\* crypto.randomBytes(32).toString('hex') and uuidv4(): a value never drawn
\* before; n numbers the draw.
generateHash(n) == <<"hash", n>>
uuidv4(n) == <<"uuid", n>>
NoToken == <<>>

NoBot ==
  [exists |-> FALSE, sourceType |-> "git", imageRef |-> FALSE,
   status |-> "stopped", containerIds |-> <<>>, appName |-> "none",
   hasBeenStarted |-> FALSE, name |-> "n0",
   updateToken |-> NoToken, authHash |-> NoToken]

\* The BotConfig createBot builds; the tokens here are those of a bot that an
\* earlier run of the manager created.
NewBot(src) ==
  [exists |-> TRUE, sourceType |-> src, imageRef |-> (src = "docker-image"),
   status |-> "stopped", containerIds |-> <<>>, appName |-> "none",
   hasBeenStarted |-> FALSE, name |-> "n0",
   updateToken |-> uuidv4(0), authHash |-> generateHash(0)]

\* bot.appName || `bot-${botId}`
EffApp(app) == IF app = "none" THEN "default" ELSE app

NoCids == <<0>>

\* ------------------------------------------------------------ log collector
addLogMut(buf, entry) ==
  LET pushed == Append(buf, entry)
  IN IF Len(pushed) > maxLogs
       THEN SubSeq(pushed, 1, maxLogs)
       ELSE pushed

addLog(buf, entry) ==
  LET pushed == Append(buf, entry)
  IN IF Len(pushed) > maxLogs
       THEN SubSeq(pushed, Len(pushed) - maxLogs + 1, Len(pushed))
       ELSE pushed

getLogs(buf) == buf

clear(buf) == <<>>

\* ------------------------------------------------------------- call frames
IdleFrame ==
  [kind |-> "none", bot |-> "A", pc |-> "idle", ret |-> <<>>,
   wait |-> "none", n |-> 0, mode |-> "none", src |-> "git",
   snap |-> [b \in BotIds |-> NoBot], wasRunning |-> FALSE, hbs |-> FALSE,
   app |-> "none", bapp |-> "none", target |-> FALSE, ids |-> <<>>,
   cid |-> 0, io |-> TRUE, ok |-> TRUE, err |-> "none",
   imageRef |-> FALSE,
   tag |-> 0, lref |-> 0, sact |-> TRUE, bact |-> TRUE,
   sstale |-> FALSE, bstale |-> FALSE, from |-> "stopped",
   tok |-> [updateToken |-> NoToken, authHash |-> NoToken],
   vars |-> [AUTH_HASH |-> NoToken, API_HASH |-> NoToken], gen |-> FALSE,
   posted |-> FALSE,
   pre |-> "none", wrote |-> FALSE, imaged |-> FALSE,
   chk |-> "none", nb |-> "none", dep |-> "none", steps |-> <<>>,
   tdfail |-> FALSE,
   tried |-> {}, tracked |-> {}, res |-> "none"]

\* A completed call keeps only what it returned.
DoneFrame(f, res) ==
  [IdleFrame EXCEPT !.kind = f.kind, !.bot = f.bot, !.pc = "done",
                    !.mode = f.mode, !.tried = f.tried,
                    !.tracked = f.tracked, !.res = res,
                    !.sstale = f.sstale, !.bstale = f.bstale,
                    !.vars = f.vars, !.gen = f.gen,
                    !.chk = f.chk, !.nb = f.nb, !.dep = f.dep,
                    !.steps = f.steps, !.wasRunning = f.wasRunning]

NoRet ==
  [fn |-> "none", bot |-> "A", ok |-> TRUE, began |-> FALSE,
   exists |-> FALSE, status |-> "stopped", appName |-> "none",
   resolved |-> "none", pre |-> "none", wrote |-> FALSE, imaged |-> FALSE,
   tdfail |-> FALSE]

\* The whole mutable state as one record, so that a synchronous segment is a
\* function from state to state and nested calls compose.
V ==
  [file |-> file, micro |-> micro, wq |-> wq, wbusy |-> wbusy, ops |-> ops,
   log |-> log, lgen |-> lgen, composeFile |-> composeFile,
   cachedMode |-> cachedMode, host |-> hostMode, live |-> live,
   ideal |-> ideal, lastRet |-> lastRet, logged |-> logged, post |-> post,
   image |-> image]

Apply(M) ==
  /\ file' = M.file
  /\ micro' = M.micro
  /\ wq' = M.wq
  /\ wbusy' = M.wbusy
  /\ ops' = M.ops
  /\ log' = M.log
  /\ lgen' = M.lgen
  /\ composeFile' = M.composeFile
  /\ cachedMode' = M.cachedMode
  /\ live' = M.live
  /\ ideal' = M.ideal
  /\ lastRet' = M.lastRet
  /\ post' = M.post
  /\ image' = M.image

\* ------------------------------------------------------------- write queue
NoReg == [b \in BotIds |-> NoBot]

WriteJob(reg, b, isDel) ==
  [k |-> "write", o |-> 0, reg |-> reg, by |-> b, del |-> isDel]
ContJob(o) ==
  [k |-> "cont", o |-> o, reg |-> NoReg, by |-> "A", del |-> FALSE]
ChainJob(kind) ==
  [k |-> kind, o |-> 0, reg |-> NoReg, by |-> "A", del |-> FALSE]

\* writeQueue = writeQueue.then(cb).catch(h): cb becomes a microtask at once
\* when writeQueue is settled, otherwise when its predecessor settles.
queueRegistryWrite(M, job) ==
  IF M.wbusy
    THEN [M EXCEPT !.wq = Append(@, job)]
    ELSE [M EXCEPT !.micro = Append(@, job), !.wbusy = TRUE]

\* saveRegistry(registry): the write is queued, never awaited.
saveRegistry(M, reg, b, isDel) == queueRegistryWrite(M, WriteJob(reg, b, isDel))

\* The registry as it will be once the writes queued so far have run.
PendingWrites(m, q) == SelectSeq(m, LAMBDA j : j.k = "write") \o q
LatestReg(M) ==
  LET p == PendingWrites(M.micro, M.wq)
  IN IF p = <<>> THEN M.file ELSE p[Len(p)].reg

\* ----------------------------------------------------------------- helpers
\* History: the first status change or log entry of a start (sact = FALSE
\* until then) and of a build (bact) records whether the buffer still held an
\* entry of an earlier API call.
Act(M, o) ==
  LET f == M.ops[o]
      buf == M.log[f.bot]
      stale == \E i \in DOMAIN buf : buf[i].tag < 4 * o + 1
  IN [M EXCEPT !.ops[o].sact = TRUE, !.ops[o].bact = TRUE,
               !.ops[o].sstale = IF f.sact THEN @ ELSE stale,
               !.ops[o].bstale = IF f.bact THEN @ ELSE stale]

Emit(M, o, type) ==
  LET f == M.ops[o]
      M1 == Act(M, o)
  IN IF M.logged /\ f.lref = M.lgen[f.bot]
       THEN [M1 EXCEPT !.log[f.bot] =
               addLog(@, [tag |-> f.tag, type |-> type])]
       ELSE M1

\* updateBotStatus(botId, status, containerIds?)
updateBotStatus(M, o, b, status, cids) ==
  LET bot == M.file[b]
      upd(r) == [r EXCEPT !.status = status,
                   !.hasBeenStarted = IF status = "running" THEN TRUE ELSE @,
                   !.containerIds = IF cids = NoCids THEN @ ELSE cids]
      M1 == Act(M, o)
  IN IF bot.exists
       THEN [saveRegistry(M1, [M.file EXCEPT ![b] = upd(bot)], b, FALSE)
               EXCEPT !.ideal[b] = IF @.exists THEN upd(@) ELSE @]
       ELSE M1

\* updateBotAppName(botId, appName)
updateBotAppName(M, o, b, appName) ==
  LET bot == M.file[b]
  IN IF bot.exists
       THEN [saveRegistry(M, [M.file EXCEPT ![b].appName = appName], b, FALSE)
               EXCEPT !.ideal[b] =
                 IF @.exists THEN [@ EXCEPT !.appName = appName] ELSE @]
       ELSE M

\* `await p` on a promise that is already settled: resume after n microtasks.
AwaitMicro(M, o, pc, n) ==
  [M EXCEPT !.ops[o].pc = pc, !.ops[o].wait = "micro", !.ops[o].n = n,
            !.micro = Append(@, ContJob(o))]

\* `await p` on a promise settled by a subprocess or timer.
AwaitMacro(M, o, pc) ==
  [M EXCEPT !.ops[o].pc = pc, !.ops[o].wait = "macro", !.ops[o].n = 0]

\* await getDeploymentMode()
getDeploymentMode(M, o, pc) ==
  IF M.cachedMode # "none"
    THEN AwaitMicro([M EXCEPT !.ops[o].mode = M.cachedMode], o, pc, 1)
    ELSE AwaitMacro([M EXCEPT !.ops[o].mode = "detect"], o, pc)

\* A function of the container manager returns: its caller (if it awaits the
\* call) resumes after one microtask, otherwise the API call is complete.
Return(M, o, fn, ok, err, began) ==
  LET f == M.ops[o]
      M1 == [M EXCEPT !.ops[o].ok = ok, !.ops[o].err = err]
      reg == LatestReg(M1)
      M2 == [M1 EXCEPT !.lastRet =
               [fn |-> fn, bot |-> f.bot, ok |-> ok, began |-> began,
                exists |-> reg[f.bot].exists, status |-> reg[f.bot].status,
                appName |-> reg[f.bot].appName, resolved |-> f.bapp,
                pre |-> f.pre, wrote |-> f.wrote, imaged |-> f.imaged,
                tdfail |-> f.tdfail]]
  IN IF f.ret = <<>>
       THEN [M2 EXCEPT !.ops[o] = DoneFrame(f, IF ok THEN "true" ELSE "false")]
       ELSE AwaitMicro([M2 EXCEPT !.ops[o].ret = Tail(@)], o, Head(f.ret), 1)

\* An exception leaves an exported function that has no handler for it.
Throw(M, o) == [M EXCEPT !.ops[o] = DoneFrame(M.ops[o], "threw")]

\* A call of createBot / updateBot / deleteBot returns.
Finish(M, o, res) == [M EXCEPT !.ops[o] = DoneFrame(M.ops[o], res)]

\* The value getDeploymentMode() resolves to; an auto-detection that has just
\* finished stores its result in cachedMode.
ResolveMode(M, o) ==
  IF M.ops[o].mode = "detect"
    THEN [M EXCEPT !.cachedMode = M.host, !.ops[o].mode = M.host]
    ELSE M

\* Entries of one invocation carry its tag: 4 * call + 1 for a build that is
\* the call or part of pull-and-rebuild, + 2 for a start, + 3 for the build a
\* start runs first.  A smaller tag is an earlier operation.
BuildTag(f, o) == IF f.ret # <<>> /\ Head(f.ret) = "s_built"
                    THEN 4 * o + 3 ELSE 4 * o + 1
StartTag(o) == 4 * o + 2

\* ---------------------------------------------------------------- buildBot
\* buildSubstitutionVariables(bot): AUTH_HASH and API_HASH come from the bot,
\* or from generateHash() when the bot has none.
buildSubstitutionVariables(bot, n) ==
  [AUTH_HASH |-> IF bot.authHash # NoToken THEN bot.authHash
                                           ELSE generateHash(n),
   API_HASH |-> IF bot.updateToken # NoToken THEN bot.updateToken
                                             ELSE generateHash(n)]

\* The compose document is made for the bot read when the build began
\* (processExistingCompose / generateCompose / generateImageCompose).
Substitute(M, o) ==
  LET f == M.ops[o]
  IN [M EXCEPT !.ops[o].vars = buildSubstitutionVariables(f.tok, 2 * o + 1),
               !.ops[o].gen = f.tok.authHash = NoToken
                              \/ f.tok.updateToken = NoToken]

RepoKinds ==
  { [compose |-> FALSE, target |-> TRUE,  app |-> "default"],
    [compose |-> TRUE,  target |-> TRUE,  app |-> "custom"],
    [compose |-> TRUE,  target |-> FALSE, app |-> "custom"] }

\* lines 917-923: store appName, status 'stopped', success
buildBot_finish(M, o) ==
  LET b == M.ops[o].bot
      M1 == updateBotAppName(M, o, b, M.ops[o].bapp)
      M2 == updateBotStatus(M1, o, b, "stopped", NoCids)
      M3 == Emit(M2, o, "success")
  IN Return(M3, o, "build", TRUE, "none", TRUE)

\* lines 924-931: the catch block
buildBot_catch(M, o) ==
  LET b == M.ops[o].bot
      M1 == Emit(Emit(M, o, "error"), o, "error")
      M2 == updateBotStatus(M1, o, b, "error", NoCids)
  IN Return(M2, o, "build", FALSE, "other", TRUE)

\* lines 906-915: build the image when the compose names a build target
buildBot_image(M, o) ==
  IF M.ops[o].target
    THEN AwaitMacro(Emit([M EXCEPT !.ops[o].imaged = TRUE], o, "info"),
                    o, "b_image")
    ELSE buildBot_finish(Emit(M, o, "info"), o)

buildBot_afterImage(M, o, inp) ==
  IF inp.ok THEN buildBot_finish(
                   Emit([M EXCEPT !.image[M.ops[o].bot] = TRUE], o, "success"),
                   o)
            ELSE buildBot_catch(M, o)

\* lines 897-904 (git) and 821-828 (docker-image): write the compose file,
\* then save the CasaOS metadata copy
buildBot_write(M, o) ==
  LET b == M.ops[o].bot
      M1 == Emit([M EXCEPT !.composeFile[b] = TRUE, !.ops[o].wrote = TRUE],
                 o, "success")
  IN IF M.ops[o].mode = "casaos"
       THEN AwaitMacro(Emit(M1, o, "info"), o, "b_meta")
       ELSE IF M.ops[o].src = "docker-image"
              THEN buildBot_finish(M1, o)
              ELSE buildBot_image(M1, o)

buildBot_afterMeta(M, o, inp) ==
  IF ~inp.ok
    THEN buildBot_catch(M, o)
    ELSE IF M.ops[o].src = "docker-image"
           THEN buildBot_finish(M, o)
           ELSE buildBot_image(M, o)

\* lines 886-895: createVolumeDirectories (which never rejects) and the
\* pre-install command, which rejects when the command it ran failed.
\* History: pre records how the pre-install step of this build ended.
buildBot_afterPreMut(M, o, inp) ==
  IF inp.ok \/ M.ops[o].wait = "micro"
    THEN buildBot_write([M EXCEPT !.ops[o].pre = "passed"], o)
    ELSE buildBot_write([M EXCEPT !.ops[o].pre = "failed"], o)

buildBot_afterPre(M, o, inp) ==
  IF inp.ok \/ M.ops[o].wait = "micro"
    THEN buildBot_write([M EXCEPT !.ops[o].pre = "passed"], o)
    ELSE buildBot_catch([M EXCEPT !.ops[o].pre = "failed"], o)

\* lines 807-819: after pullImage
buildBot_afterPull(M, o, inp) ==
  IF inp.ok
    THEN buildBot_write(
           Substitute(Emit([M EXCEPT !.ops[o].bapp = "default"], o, "info"), o),
           o)
    ELSE buildBot_catch(M, o)

\* lines 797-895: after getDeploymentMode
buildBot_afterMode(M, o, inp) ==
  LET M0 == ResolveMode(M, o)
      f == M0.ops[o]
      b == f.bot
  IN IF f.src = "docker-image"
       THEN IF ~f.imageRef
              THEN Return(updateBotStatus(Emit(M0, o, "error"), o, b,
                                          "stopped", NoCids),
                          o, "build", FALSE, "other", TRUE)
              ELSE AwaitMacro(Emit(M0, o, "info"), o, "b_pull")
       ELSE LET M1 == Emit(Emit(Emit(M0, o, "info"), o, "info"), o, "info")
                M2 == Substitute([M1 EXCEPT !.ops[o].bapp = inp.repo.app,
                                            !.ops[o].target = inp.repo.target],
                                 o)
            IN IF f.mode = "casaos"
                 THEN IF inp.wk = "macro"
                        THEN AwaitMacro(Emit(M2, o, "info"), o, "b_pre")
                        ELSE AwaitMicro(Emit(M2, o, "info"), o, "b_pre", 2)
                 ELSE buildBot_write(M2, o)

\* lines 778-797: up to the first await
buildBot(M, o) ==
  LET f == M.ops[o]
      b == f.bot
      bot == M.file[b]
  IN IF ~bot.exists
       THEN Return(M, o, "build", FALSE, "notfound", FALSE)
       ELSE LET M1 == [M EXCEPT !.ops[o].src = bot.sourceType,
                                !.ops[o].imageRef = bot.imageRef,
                                !.ops[o].tok =
                                  [updateToken |-> bot.updateToken,
                                   authHash |-> bot.authHash],
                                !.ops[o].tag = BuildTag(f, o),
                                !.ops[o].lref = M.lgen[b],
                                !.ops[o].bact = FALSE,
                                !.ops[o].pre = "none",
                                !.ops[o].wrote = FALSE,
                                !.ops[o].imaged = FALSE,
                                !.log[b] = clear(@)]
                M2 == Emit(M1, o, "system")
                M3 == updateBotStatus(M2, o, b, "building", NoCids)
            IN getDeploymentMode(M3, o, "b_mode")


\* casaosApi.composeDown(appName, composePath): resolves to { success, error }
\* and never rejects; a successful run removes the project's containers.
composeDown(S, ok) == IF ok THEN {} ELSE S

\* ---------------------------------------------------------------- startBot
IsGit(M, o) == M.ops[o].src = "git"
EmitGit(M, o, type) == IF IsGit(M, o) THEN Emit(M, o, type) ELSE M

\* The ids `docker ps` lists for the bot, in listing order.
ListIds(S) ==
  (IF DockerCid \in S THEN <<DockerCid>> ELSE <<>>) \o
  (IF ComposeCid \in S THEN <<ComposeCid>> ELSE <<>>)

\* startGitBot lines 540-547, startDockerImageBot lines 626-630
startBot_catch(M, o) ==
  LET b == M.ops[o].bot
      M1 == EmitGit(EmitGit(M, o, "error"), o, "error")
      M2 == updateBotStatus(M1, o, b, "error", NoCids)
  IN Return(M2, o, "start", FALSE, "other", TRUE)

\* lines 512, 535-539 / 602, 622-625: status 'running', success
startBot_running(M, o, cids) ==
  LET b == M.ops[o].bot
      M0 == IF M.ops[o].posted /\ M.post[b] = "ran"
              THEN [M EXCEPT !.post[b] = "reached"]
              ELSE M
      M1 == updateBotStatus(M0, o, b, "running", cids)
      M2 == EmitGit(EmitGit(M1, o, "success"), o, "success")
  IN Return(M2, o, "start", TRUE, "none", TRUE)

\* lines 510 / 600: getContainerIdsForBot lists the containers, then awaits
startBot_listIds(M, o) ==
  AwaitMicro([M EXCEPT !.ops[o].ids = ListIds(M.live[M.ops[o].bot])],
             o, "s_ids", 2)

startBot_afterIds(M, o, inp) == startBot_running(M, o, M.ops[o].ids)

startBot_afterPost(M, o, inp) == startBot_listIds(M, o)

\* executeInstallCommand('post', ...) of a compose that has a
\* post-install-cmd: the command is run.  History: post[b] records that it
\* ran, that it ran for a start that reached 'running', and that it ran
\* again after that.
executeInstallCommand_post(M, o) ==
  LET b == M.ops[o].bot
  IN [M EXCEPT !.ops[o].posted = TRUE,
               !.post[b] = IF @ \in {"reached", "again"} THEN "again"
                                                          ELSE "ran"]

\* lines 504-510 / 598-600: after fixPostDeployOwnership
startBot_afterFix(M, o, inp) ==
  IF IsGit(M, o) /\ ~M.ops[o].hbs
    THEN IF M.composeFile[M.ops[o].bot]
           THEN AwaitMacro(executeInstallCommand_post(M, o), o, "s_post")
           ELSE startBot_catch(M, o)
    ELSE startBot_listIds(M, o)

\* lines 498-502 / 595-598: after the 3 s delay
startBot_afterDelay(M, o, inp) ==
  AwaitMacro(EmitGit(M, o, "info"), o, "s_fixed")

\* lines 490-498 / 589-595: after casaosApi.deployApp
startBot_afterDeploy(M, o, inp) ==
  IF inp.ok
    THEN AwaitMacro([M EXCEPT !.live[M.ops[o].bot] = @ \cup {ComposeCid}],
                    o, "s_delay")
    ELSE startBot_catch(M, o)

\* lines 532-534 / 620-621: after startContainer
startBot_afterStart(M, o, inp) ==
  IF M.ops[o].io
    THEN startBot_running(M, o, <<M.ops[o].cid>>)
    ELSE startBot_catch(M, o)

\* lines 524-532 / 613-620: after createBotContainer; startContainer runs
\* `docker start` synchronously
startBot_afterCreate(M, o, inp) ==
  LET f == M.ops[o]
  IN IF f.io
       THEN AwaitMicro([EmitGit(M, o, "info") EXCEPT
                          !.ops[o].io = inp.ok /\ f.cid \in M.live[f.bot]],
                       o, "s_started", 1)
       ELSE startBot_catch(M, o)

\* lines 479-490, 513-529 / 578-589, 603-618: after getDeploymentMode;
\* createBotContainer runs `docker create --name bot-<id>` synchronously
startBot_afterMode(M, o, inp) ==
  LET M0 == ResolveMode(M, o)
      f == M0.ops[o]
      b == f.bot
      M1 == updateBotStatus(
              EmitGit([M0 EXCEPT !.ops[o].dep =
                         IF M0.composeFile[b] THEN "compose" ELSE "nocompose"],
                      o, "info"),
              o, b, "starting", NoCids)
      created == inp.ok /\ DockerCid \notin M0.live[b]
  IN IF f.mode = "casaos"
       THEN AwaitMacro(M1, o, "s_deploy")
       ELSE AwaitMicro([M1 EXCEPT
                          !.ops[o].io = created,
                          !.ops[o].cid = DockerCid,
                          !.live[b] = IF created THEN @ \cup {DockerCid} ELSE @],
                       o, "s_created", 1)

\* lines 472-479 / 571-578: after the build that start ran first.
\* History: nb records how that build ended, dep (set where deployApp or
\* createBotContainer is called) whether the compose file existed then.
startBot_afterBuildMut(M, o, inp) ==
  LET M1 == [M EXCEPT !.ops[o].tag = StartTag(o),
                      !.ops[o].nb = IF M.ops[o].ok THEN "ok" ELSE "failed"]
  IN getDeploymentMode(M1, o, "s_mode")

startBot_afterBuild(M, o, inp) ==
  LET M1 == [M EXCEPT !.ops[o].tag = StartTag(o),
                      !.ops[o].nb = IF M.ops[o].ok THEN "ok" ELSE "failed"]
  IN IF M.ops[o].ok
       THEN getDeploymentMode(M1, o, "s_mode")
       ELSE IF IsGit(M, o)
              THEN startBot_catch(M1, o)
              ELSE Return(M1, o, "start", FALSE, "other", TRUE)

\* startBot lines 424-441, then startGitBot lines 450-479 or
\* startDockerImageBot lines 554-578, up to the first await
startBot(M, o) ==
  LET f == M.ops[o]
      b == f.bot
      bot == M.file[b]
  IN IF ~bot.exists
       THEN Return(M, o, "start", FALSE, "notfound", FALSE)
       ELSE IF bot.status = "running"
         THEN Return(M, o, "start", FALSE, "running", FALSE)
         ELSE IF bot.sourceType = "docker-image" /\ ~bot.imageRef
           THEN Return(M, o, "start", FALSE, "other", FALSE)
           ELSE
             LET M1 == [M EXCEPT !.ops[o].src = bot.sourceType,
                                 !.ops[o].imageRef = bot.imageRef,
                                 !.ops[o].tag = StartTag(o),
                                 !.ops[o].sact = FALSE,
                                 !.ops[o].chk = IF M.composeFile[b]
                                                  THEN "present" ELSE "missing",
                                 !.ops[o].nb = IF M.composeFile[b]
                                                 THEN "none" ELSE "ran",
                                 !.ops[o].dep = "none",
                                 !.ops[o].app = EffApp(bot.appName),
                                 !.ops[o].hbs = bot.hasBeenStarted]
                 M2 == IF bot.sourceType = "git"
                         THEN Emit([M1 EXCEPT !.ops[o].lref = M.lgen[b],
                                              !.log[b] = clear(@)],
                                   o, "system")
                         ELSE M1
             IN IF M.composeFile[b]
                  THEN getDeploymentMode(M2, o, "s_mode")
                  ELSE buildBot([EmitGit(M2, o, "info") EXCEPT
                                   !.ops[o].ret = <<"s_built">> \o @], o)

\* ----------------------------------------------------------------- stopBot
\* lines 695-698
stopBot_finish(M, o) ==
  Return(updateBotStatus(M, o, M.ops[o].bot, "stopped", <<>>),
         o, "stop", TRUE, "none", TRUE)

\* lines 684-692: the next tracked container; stopContainer runs
\* `docker stop` synchronously
stopBot_loop(M, o, inp) ==
  LET f == M.ops[o]
      stopped == inp.ok /\ Head(f.ids) \in M.live[f.bot]
  IN IF f.ids = <<>>
       THEN stopBot_finish(M, o)
       ELSE AwaitMicro([M EXCEPT !.ops[o].io = stopped,
                                 !.ops[o].tdfail = @ \/ ~stopped],
                       o, "st_stop", 1)

\* lines 687-691: after stopContainer; removeContainer runs `docker rm`
stopBot_afterStop(M, o, inp) ==
  LET f == M.ops[o]
      cid == Head(f.ids)
      removed == inp.ok /\ cid \in M.live[f.bot]
  IN IF f.io
       THEN AwaitMicro([M EXCEPT !.live[f.bot] =
                          IF removed THEN @ \ {cid} ELSE @,
                                 !.ops[o].tdfail = @ \/ ~removed],
                       o, "st_rm", 1)
       ELSE stopBot_loop([M EXCEPT !.ops[o].ids = Tail(@)], o, inp)

\* lines 688-692: after removeContainer
stopBot_afterRemove(M, o, inp) ==
  stopBot_loop([M EXCEPT !.ops[o].ids = Tail(@)], o, inp)

\* lines 678-681: after casaosApi.composeDown
stopBot_afterDown(M, o, inp) ==
  stopBot_finish([M EXCEPT !.live[M.ops[o].bot] = composeDown(@, inp.ok),
                           !.ops[o].tdfail = ~inp.ok], o)

\* lines 666-693: after getDeploymentMode
stopBot_afterMode(M, o, inp) ==
  LET M0 == ResolveMode(M, o)
  IN IF M0.ops[o].mode = "casaos"
       THEN AwaitMacro(M0, o, "st_down")
       ELSE stopBot_loop(M0, o, inp)

stopBotMut(M, o) ==
  LET f == M.ops[o]
      b == f.bot
      bot == M.file[b]
  IN IF ~bot.exists
       THEN Return(M, o, "stop", FALSE, "notfound", FALSE)
       ELSE getDeploymentMode(
              updateBotStatus([M EXCEPT !.ops[o].ids = bot.containerIds,
                                        !.ops[o].tdfail = FALSE,
                                        !.ops[o].app = EffApp(bot.appName)],
                              o, b, "stopping", NoCids),
              o, "st_mode")

\* lines 653-666: up to the first await.  History: tdfail records that the
\* compose-down, or the stop or removal of a tracked container, failed.
stopBot(M, o) ==
  LET f == M.ops[o]
      b == f.bot
      bot == M.file[b]
  IN IF ~bot.exists
       THEN Return(M, o, "stop", FALSE, "notfound", FALSE)
       ELSE IF bot.status # "running"
         THEN Return(M, o, "stop", FALSE, "notrunning", FALSE)
         ELSE getDeploymentMode(
                updateBotStatus([M EXCEPT !.ops[o].ids = bot.containerIds,
                                          !.ops[o].tdfail = FALSE,
                                          !.ops[o].app = EffApp(bot.appName)],
                                o, b, "stopping", NoCids),
                o, "st_mode")

\* -------------------------------------------------------------- restartBot
\* lines 711-715: after stopBot
restartBot_afterStop(M, o, inp) ==
  IF ~M.ops[o].ok /\ M.ops[o].err # "notrunning"
    THEN Return(M, o, "restart", FALSE, M.ops[o].err, FALSE)
    ELSE startBot(M, o)

\* lines 709-710
restartBot(M, o) ==
  stopBot([M EXCEPT !.ops[o].ret = <<"r_stopped">> \o @], o)

\* dockerClient.imageExists(name), dockerClient.removeImage(name)
imageExists(M, b) == M.image[b]
removeImage(present) == FALSE

\* ---------------------------------------------------------- pullAndRebuild
\* History: steps lists what a pull-and-rebuild has called so far.
Step(M, o, name) == [M EXCEPT !.ops[o].steps = Append(@, name)]

\* lines 747-757: after buildBot
pullAndRebuild_afterBuild(M, o, inp) ==
  IF ~M.ops[o].ok
    THEN Return(M, o, "pull", FALSE, "other", TRUE)
    ELSE IF M.ops[o].wasRunning
           THEN startBot(Step(M, o, "start"), o)
           ELSE Return(M, o, "pull", TRUE, "none", TRUE)

\* lines 737-747, 758-761: after pullRepository: remove the old image, then
\* build ("build" in steps when no image bot-<id>:latest exists by then)
pullAndRebuild_afterPullMut(M, o, inp) ==
  LET b == M.ops[o].bot
      M1 == M
      M2 == Step(M1, o, IF imageExists(M1, b) THEN "cached build" ELSE "build")
  IN IF M.ops[o].io /\ inp.ok
       THEN buildBot([M2 EXCEPT !.ops[o].ret = <<"p_built">> \o @], o)
       ELSE Return(M, o, "pull", FALSE, "other", TRUE)

pullAndRebuild_afterPull(M, o, inp) ==
  LET b == M.ops[o].bot
      M1 == IF imageExists(M, b)
              THEN Step([M EXCEPT !.image[b] = removeImage(@)], o, "rmi")
              ELSE M
      M2 == Step(M1, o, IF imageExists(M1, b) THEN "cached build" ELSE "build")
  IN IF M.ops[o].io /\ inp.ok
       THEN buildBot([M2 EXCEPT !.ops[o].ret = <<"p_built">> \o @], o)
       ELSE Return(M, o, "pull", FALSE, "other", TRUE)

\* lines 735-737: pullRepository rejects at once when there is no clone
pullAndRebuild_fetch(M, o) ==
  LET M1 == Step(M, o, "pull")
  IN IF M.ops[o].src = "git"
       THEN AwaitMacro([M1 EXCEPT !.ops[o].io = TRUE], o, "p_pulled")
       ELSE AwaitMicro([M1 EXCEPT !.ops[o].io = FALSE], o, "p_pulled", 1)

\* lines 732-735: after stopBot (its result is not looked at)
pullAndRebuild_afterStop(M, o, inp) == pullAndRebuild_fetch(M, o)

\* lines 721-733
pullAndRebuild(M, o) ==
  LET b == M.ops[o].bot
      bot == M.file[b]
      M1 == [M EXCEPT !.ops[o].src = bot.sourceType,
                      !.ops[o].wasRunning = (bot.status = "running")]
  IN IF ~bot.exists
       THEN Return(M, o, "pull", FALSE, "notfound", FALSE)
       ELSE IF bot.status = "running"
              THEN stopBot([Step(M1, o, "stop") EXCEPT
                              !.ops[o].ret = <<"p_stopped">> \o @], o)
              ELSE pullAndRebuild_fetch(M1, o)

\* --------------------------------------------------------------- createBot
\* lines 225-265: add the bot to the registry read at the start, save it
createBot_save(M, o) ==
  LET f == M.ops[o]
      bot == [NewBot(f.src) EXCEPT !.updateToken = uuidv4(2 * o),
                                   !.authHash = generateHash(2 * o)]
      reg == [f.snap EXCEPT ![f.bot] = bot]
      M1 == saveRegistry(M, reg, f.bot, FALSE)
  IN Finish([M1 EXCEPT !.ideal[f.bot] = bot], o, "true")

\* lines 203-223: after cloneRepository
createBot_afterClone(M, o, inp) ==
  IF inp.ok THEN createBot_save(M, o) ELSE Throw(M, o)

\* lines 182-223
createBot(M, o, src) ==
  LET M1 == [M EXCEPT !.ops[o].snap = M.file, !.ops[o].src = src]
  IN IF src = "git"
       THEN AwaitMacro(M1, o, "c_cloned")
       ELSE createBot_save(M1, o)

\* --------------------------------------------------------------- updateBot
updateBotMut(M, o) ==
  LET b == M.ops[o].bot
      bot == M.file[b]
  IN IF ~bot.exists
       THEN Finish(M, o, "false")
       ELSE Finish([saveRegistry(M, [M.file EXCEPT ![b].name = "n1",
                                                    ![b].authHash = NoToken],
                                 b, FALSE)
                      EXCEPT !.ideal[b] =
                        IF @.exists THEN [@ EXCEPT !.name = "n1"] ELSE @],
                   o, "true")

\* lines 271-288
updateBot(M, o) ==
  LET b == M.ops[o].bot
      bot == M.file[b]
  IN IF ~bot.exists
       THEN Finish(M, o, "false")
       ELSE Finish([saveRegistry(M, [M.file EXCEPT ![b].name = "n1"], b, FALSE)
                      EXCEPT !.ideal[b] =
                        IF @.exists THEN [@ EXCEPT !.name = "n1"] ELSE @],
                   o, "true")

\* --------------------------------------------------------------- deleteBot
\* lines 371-383: remove the bot directory, the registry entry, the collector
deleteBot_afterCleanup(M, o, inp) ==
  LET f == M.ops[o]
      b == f.bot
      reg == [f.snap EXCEPT ![b] = NoBot]
      M1 == saveRegistry([M EXCEPT !.composeFile[b] = FALSE], reg, b, TRUE)
  IN IF inp.ok
       THEN Finish([M1 EXCEPT !.ideal[b] = NoBot,
                              !.log[b] = <<>>,
                              !.lgen[b] = @ + 1],
                   o, "true")
       ELSE Throw(M, o)

\* lines 335-370: image, volumes, then two awaited directory removals
deleteBot_cleanup(M, o) ==
  LET b == M.ops[o].bot
  IN AwaitMicro([M EXCEPT !.image[b] = IF imageExists(M, b)
                                         THEN removeImage(@) ELSE @],
                o, "d_final", 2)

\* lines 321-329: the next tracked container
deleteBot_loop(M, o, inp) ==
  LET f == M.ops[o]
  IN IF f.ids = <<>>
       THEN deleteBot_cleanup(M, o)
       ELSE AwaitMicro([M EXCEPT
                          !.ops[o].io = inp.ok /\ Head(f.ids) \in M.live[f.bot],
                          !.ops[o].tried = @ \cup {Head(f.ids)}],
                       o, "d_stop", 1)

\* lines 324-328: after stopContainer
deleteBot_afterStop(M, o, inp) ==
  LET f == M.ops[o]
      cid == Head(f.ids)
      removed == inp.ok /\ cid \in M.live[f.bot]
  IN IF f.io
       THEN AwaitMicro([M EXCEPT !.live[f.bot] =
                          IF removed THEN @ \ {cid} ELSE @],
                       o, "d_rm", 1)
       ELSE deleteBot_loop([M EXCEPT !.ops[o].ids = Tail(@)], o, inp)

\* lines 325-329: after removeContainer
deleteBot_afterRemove(M, o, inp) ==
  deleteBot_loop([M EXCEPT !.ops[o].ids = Tail(@)], o, inp)

\* lines 318-319, 331-333: after casaosApi.uninstallApp
deleteBot_afterUninstall(M, o, inp) == deleteBot_cleanup(M, o)

\* lines 313-319: after casaosApi.composeDown
deleteBot_afterDown(M, o, inp) ==
  AwaitMacro([M EXCEPT !.live[M.ops[o].bot] = composeDown(@, inp.ok)],
             o, "d_uninst")

\* lines 301-330: after getDeploymentMode
deleteBot_afterMode(M, o, inp) ==
  LET M0 == ResolveMode(M, o)
      f == M0.ops[o]
  IN IF f.mode = "casaos"
       THEN IF M0.composeFile[f.bot]
              THEN AwaitMacro(M0, o, "d_down")
              ELSE AwaitMacro(M0, o, "d_uninst")
       ELSE deleteBot_loop(M0, o, inp)

\* lines 293-301
deleteBot(M, o) ==
  LET b == M.ops[o].bot
      bot == M.file[b]
  IN IF ~bot.exists
       THEN Finish(M, o, "false")
       ELSE getDeploymentMode(
              [M EXCEPT !.ops[o].snap = M.file,
                        !.ops[o].ids = bot.containerIds,
                        !.ops[o].tracked =
                          {bot.containerIds[i] : i \in DOMAIN bot.containerIds},
                        !.ops[o].app = EffApp(bot.appName)],
              o, "d_mode")

\* ---------------------------------------------------- syncContainerStates
Booted == [pc |-> "done", containers |-> [b \in BotIds |-> {}], snap |-> NoReg]

\* containers.filter(c => c.name.startsWith(appName) && c.state === 'running')
\* for a bot whose containers were started under its current app name.
RunningContainers(S) == ListIds(S)

\* lines 1032-1050: one bot of the registry read at the start.  No call frame
\* is active at startup; frame 1 stands in for the caller.
syncBot(M, bt, b) ==
  LET bot == bt.snap[b]
      running == RunningContainers(bt.containers[b])
  IN IF ~(bot.exists /\ bot.status = "running")
       THEN M
       ELSE IF running = <<>>
              THEN updateBotStatus(M, 1, b, "stopped", <<>>)
              ELSE IF Len(running) # Len(bot.containerIds)
                     THEN updateBotStatus(M, 1, b, "running", running)
                     ELSE M

\* lines 1029-1053: after listBotContainers, every bot in registry order
syncContainerStates_afterList(M, bt) == syncBot(syncBot(M, bt, "A"), bt, "B")

\* ------------------------------------------------------------- event loop
Ready(o) ==
  \/ /\ ops[o].wait = "micro"
     /\ micro # <<>>
     /\ Head(micro).k = "cont"
     /\ Head(micro).o = o
     /\ ops[o].n <= 1
  \/ /\ ops[o].wait = "macro"
     /\ micro = <<>>

\* The state a resumed segment starts from: its job has left the queue.
Resumed(o) ==
  IF ops[o].wait = "micro" THEN [V EXCEPT !.micro = Tail(@)] ELSE V

Inputs == [ok : BOOLEAN, repo : RepoKinds, wk : {"micro", "macro"}]
NoInput == [ok |-> TRUE, repo |-> CHOOSE r \in RepoKinds : ~r.compose,
            wk |-> "macro"]
OkInputs == {i \in Inputs : i.repo = NoInput.repo /\ i.wk = "macro"}

\* queueRegistryWrite lines 108-116: the queued operation runs
RunWrite ==
  /\ micro # <<>>
  /\ Head(micro).k = "write"
  /\ file' = Head(micro).reg
  /\ deleted' = IF Head(micro).del THEN deleted \cup {Head(micro).by}
                                   ELSE deleted
  /\ micro' = Append(Tail(micro), ChainJob("chainA"))
  /\ UNCHANGED <<wq, wbusy, ops, nops, log, lgen, composeFile, cachedMode,
                 hostMode, live, ideal, lastRet, serial, logged, boot,
                 post, image, dp, sse, sub, doc, logs, nadd,
                 wst, det>>

\* queueRegistryWrite lines 108-121: the promise returned by the callback is
\* adopted (two microtasks), the catch passes the value on (one more), and only
\* then does the next registered callback become a microtask.
ChainTick ==
  /\ micro # <<>>
  /\ Head(micro).k \in {"chainA", "chainB", "chainC"}
  /\ IF Head(micro).k = "chainA"
       THEN /\ micro' = Append(Tail(micro), ChainJob("chainB"))
            /\ UNCHANGED <<wq, wbusy>>
       ELSE IF Head(micro).k = "chainB"
         THEN /\ micro' = Append(Tail(micro), ChainJob("chainC"))
              /\ UNCHANGED <<wq, wbusy>>
         ELSE IF wq # <<>>
           THEN /\ micro' = Append(Tail(micro), Head(wq))
                /\ wq' = Tail(wq)
                /\ UNCHANGED wbusy
           ELSE /\ micro' = Tail(micro)
                /\ wbusy' = FALSE
                /\ UNCHANGED wq
  /\ UNCHANGED <<file, ops, nops, log, lgen, composeFile, cachedMode,
                 hostMode, live, ideal, deleted, lastRet, serial, logged, boot,
                 post, image, dp, sse, sub, doc, logs, nadd,
                 wst, det>>

\* A chain of n awaits on settled promises takes n microtasks.
Hop ==
  /\ micro # <<>>
  /\ Head(micro).k = "cont"
  /\ ops[Head(micro).o].n > 1
  /\ ops' = [ops EXCEPT ![Head(micro).o].n = @ - 1]
  /\ micro' = Append(Tail(micro), Head(micro))
  /\ UNCHANGED <<file, wq, wbusy, nops, log, lgen, composeFile, cachedMode,
                 hostMode, live, ideal, deleted, lastRet, serial, logged, boot,
                 post, image, dp, sse, sub, doc, logs, nadd,
                 wst, det>>

\* index.ts line 31, syncContainerStates lines 1023-1025: the registry is read
\* and the containers are listed before the first await.
SyncStart ==
  /\ boot.pc = "start"
  /\ boot' = [pc |-> "listing", containers |-> live, snap |-> file]
  /\ UNCHANGED <<file, micro, wq, wbusy, ops, nops, log, lgen, composeFile,
                 cachedMode, hostMode, live, ideal, deleted, lastRet, serial,
                 logged, post, image, dp, sse, sub, doc, logs, nadd,
                 wst, det>>

\* syncContainerStates lines 1026-1054; then main() starts the server
SyncFinish ==
  /\ boot.pc = "listing"
  /\ Apply(syncContainerStates_afterList(V, boot))
  /\ boot' = Booted
  /\ UNCHANGED <<nops, hostMode, deleted, serial, logged, dp, sse, sub, doc,
                 logs, nadd,
                 wst, det>>

\* A new API call is a macrotask of its own.  The frames of completed calls
\* and the record of the latest return are dropped: they are history.
NewCall(kind, b) ==
  [V EXCEPT !.ops = [o \in OpIds |->
                       IF o = nops + 1
                         THEN [IdleFrame EXCEPT !.kind = kind, !.bot = b,
                                                !.from = file[b].status]
                         ELSE IF ops[o].pc = "done" THEN IdleFrame ELSE ops[o]],
            !.lastRet = NoRet]

CanCall ==
  /\ boot.pc = "done"
  /\ micro = <<>>
  /\ IF serial
       THEN nops < MaxSerial /\ \A o \in OpIds : ops[o].pc \in {"idle", "done"}
       ELSE nops < MaxOps

Rest ==
  UNCHANGED <<hostMode, deleted, serial, logged, boot, dp, sse, sub, doc, logs,
              nadd,
              wst, det>>

\* POST /:id/build
CallBuild ==
  \E b \in BotIds :
    /\ CanCall
    /\ nops' = nops + 1
    /\ Apply(buildBot(NewCall("build", b), nops + 1))
    /\ Rest

BuildStep(M, o, inp) ==
  CASE M.ops[o].pc = "b_mode" -> buildBot_afterMode(M, o, inp)
    [] M.ops[o].pc = "b_pull" -> buildBot_afterPull(M, o, inp)
    [] M.ops[o].pc = "b_pre" -> buildBot_afterPre(M, o, inp)
    [] M.ops[o].pc = "b_meta" -> buildBot_afterMeta(M, o, inp)
    [] M.ops[o].pc = "b_image" -> buildBot_afterImage(M, o, inp)

BuildInputs(pc) ==
  IF pc = "b_mode" THEN {i \in Inputs : i.ok} ELSE OkInputs

ContinueBuild ==
  \E o \in OpIds :
    /\ Ready(o)
    /\ ops[o].pc \in {"b_mode", "b_pull", "b_pre", "b_meta", "b_image"}
    /\ \E inp \in BuildInputs(ops[o].pc) :
         Apply(BuildStep(Resumed(o), o, inp))
    /\ UNCHANGED nops
    /\ Rest

StartPcs == {"s_built", "s_mode", "s_created", "s_started", "s_deploy",
             "s_delay", "s_fixed", "s_post", "s_ids"}

StartStep(M, o, inp) ==
  CASE M.ops[o].pc = "s_built" -> startBot_afterBuild(M, o, inp)
    [] M.ops[o].pc = "s_mode" -> startBot_afterMode(M, o, inp)
    [] M.ops[o].pc = "s_created" -> startBot_afterCreate(M, o, inp)
    [] M.ops[o].pc = "s_started" -> startBot_afterStart(M, o, inp)
    [] M.ops[o].pc = "s_deploy" -> startBot_afterDeploy(M, o, inp)
    [] M.ops[o].pc = "s_delay" -> startBot_afterDelay(M, o, inp)
    [] M.ops[o].pc = "s_fixed" -> startBot_afterFix(M, o, inp)
    [] M.ops[o].pc = "s_post" -> startBot_afterPost(M, o, inp)
    [] M.ops[o].pc = "s_ids" -> startBot_afterIds(M, o, inp)

\* POST /:id/start
CallStart ==
  \E b \in BotIds :
    /\ CanCall
    /\ nops' = nops + 1
    /\ Apply(startBot(NewCall("start", b), nops + 1))
    /\ Rest

ContinueStart ==
  \E o \in OpIds :
    /\ Ready(o)
    /\ ops[o].pc \in StartPcs
    /\ \E inp \in (IF ops[o].pc \in {"s_mode", "s_created", "s_deploy"}
                     THEN OkInputs ELSE {NoInput}) :
         Apply(StartStep(Resumed(o), o, inp))
    /\ UNCHANGED nops
    /\ Rest

StopPcs == {"st_mode", "st_stop", "st_rm", "st_down"}

StopStep(M, o, inp) ==
  CASE M.ops[o].pc = "st_mode" -> stopBot_afterMode(M, o, inp)
    [] M.ops[o].pc = "st_stop" -> stopBot_afterStop(M, o, inp)
    [] M.ops[o].pc = "st_rm" -> stopBot_afterRemove(M, o, inp)
    [] M.ops[o].pc = "st_down" -> stopBot_afterDown(M, o, inp)

\* POST /:id/stop
CallStop ==
  \E b \in BotIds :
    /\ CanCall
    /\ nops' = nops + 1
    /\ Apply(stopBot(NewCall("stop", b), nops + 1))
    /\ Rest

ContinueStop ==
  \E o \in OpIds :
    /\ Ready(o)
    /\ ops[o].pc \in StopPcs
    /\ \E inp \in OkInputs : Apply(StopStep(Resumed(o), o, inp))
    /\ UNCHANGED nops
    /\ Rest

\* POST /:id/restart
CallRestart ==
  \E b \in BotIds :
    /\ CanCall
    /\ nops' = nops + 1
    /\ Apply(restartBot(NewCall("restart", b), nops + 1))
    /\ Rest

ContinueRestart ==
  \E o \in OpIds :
    /\ Ready(o)
    /\ ops[o].pc = "r_stopped"
    /\ Apply(restartBot_afterStop(Resumed(o), o, NoInput))
    /\ UNCHANGED nops
    /\ Rest

PullPcs == {"p_stopped", "p_pulled", "p_built"}

PullStep(M, o, inp) ==
  CASE M.ops[o].pc = "p_stopped" -> pullAndRebuild_afterStop(M, o, inp)
    [] M.ops[o].pc = "p_pulled" -> pullAndRebuild_afterPull(M, o, inp)
    [] M.ops[o].pc = "p_built" -> pullAndRebuild_afterBuild(M, o, inp)

\* POST /:id/pull, POST /:id/request-update
CallPull ==
  \E b \in BotIds :
    /\ CanCall
    /\ nops' = nops + 1
    /\ Apply(pullAndRebuild(NewCall("pull", b), nops + 1))
    /\ Rest

ContinuePull ==
  \E o \in OpIds :
    /\ Ready(o)
    /\ ops[o].pc \in PullPcs
    /\ \E inp \in (IF ops[o].pc = "p_pulled" /\ ops[o].io
                     THEN OkInputs ELSE {NoInput}) :
         Apply(PullStep(Resumed(o), o, inp))
    /\ UNCHANGED nops
    /\ Rest

\* A bot id is a fresh uuid: never one that is or was in use.
FreshId(b) ==
  /\ ~file[b].exists
  /\ ~ideal[b].exists
  /\ b \notin deleted
  /\ \A o \in OpIds : ~(ops[o].kind = "create" /\ ops[o].bot = b)

\* POST /
CallCreate ==
  \E b \in BotIds, src \in {"git", "docker-image"} :
    /\ CanCall
    /\ FreshId(b)
    /\ nops' = nops + 1
    /\ Apply(createBot(NewCall("create", b), nops + 1, src))
    /\ Rest

ContinueCreate ==
  \E o \in OpIds :
    /\ Ready(o)
    /\ ops[o].pc = "c_cloned"
    /\ \E inp \in OkInputs : Apply(createBot_afterClone(Resumed(o), o, inp))
    /\ UNCHANGED nops
    /\ Rest

\* PUT /:id, PUT /:id/env
CallUpdate ==
  \E b \in BotIds :
    /\ CanCall
    /\ nops' = nops + 1
    /\ Apply(updateBot(NewCall("update", b), nops + 1))
    /\ Rest

DeletePcs == {"d_mode", "d_down", "d_uninst", "d_stop", "d_rm", "d_final"}

DeleteStep(M, o, inp) ==
  CASE M.ops[o].pc = "d_mode" -> deleteBot_afterMode(M, o, inp)
    [] M.ops[o].pc = "d_down" -> deleteBot_afterDown(M, o, inp)
    [] M.ops[o].pc = "d_uninst" -> deleteBot_afterUninstall(M, o, inp)
    [] M.ops[o].pc = "d_stop" -> deleteBot_afterStop(M, o, inp)
    [] M.ops[o].pc = "d_rm" -> deleteBot_afterRemove(M, o, inp)
    [] M.ops[o].pc = "d_final" -> deleteBot_afterCleanup(M, o, inp)

\* DELETE /:id
CallDelete ==
  \E b \in BotIds :
    /\ CanCall
    /\ nops' = nops + 1
    /\ Apply(deleteBot(NewCall("delete", b), nops + 1))
    /\ Rest

ContinueDelete ==
  \E o \in OpIds :
    /\ Ready(o)
    /\ ops[o].pc \in DeletePcs
    /\ \E inp \in (IF ops[o].pc = "d_uninst" THEN {NoInput} ELSE OkInputs) :
         Apply(DeleteStep(Resumed(o), o, inp))
    /\ UNCHANGED nops
    /\ Rest

\* --------------------------------------------------------- specifications
\* No client of the build-log stream is being looked at.
NoStream == [state |-> "none", got |-> <<>>, base |-> 0]

\* No compose text is being substituted.
NoSubst == [pc |-> "none", compose |-> <<>>, PUID |-> <<>>, MODE |-> <<>>,
            once |-> <<>>, twice |-> <<>>]

\* No compose document is being transformed.
NoDoc == [pc |-> "none"]

\* The write queue and the detector are not being looked at.
NoQueue == [state |-> "none"]
NoDet == [pc |-> "none"]

\* No deployApp call is being looked at.
NoDeploy ==
  [timeoutS |-> 0, now |-> 0, timer |-> "none", grace |-> "none",
   graceAt |-> 0, proc |-> "none", alive |-> FALSE, closed |-> TRUE,
   code |-> 0, killed |-> FALSE, sigs |-> <<>>, res |-> "none"]

\* bots.json at startup: bot A was created earlier, B is not in use yet.
Registry(src) == [b \in BotIds |-> IF b = "A" THEN NewBot(src) ELSE NoBot]

InitRegistries == { Registry(src) : src \in {"git", "docker-image"} }

\* What a previous run left behind: bot A stopped and never built, or bot A
\* (git) recorded as running with the container of the host's deployment
\* mode, which still runs or is gone.
CidOf(mode) == IF mode = "casaos" THEN ComposeCid ELSE DockerCid

RunningRegistry(mode) ==
  [Registry("git") EXCEPT !["A"].status = "running",
                          !["A"].hasBeenStarted = TRUE,
                          !["A"].containerIds = <<CidOf(mode)>>]

BootStopped ==
  { [file |-> r, composeFile |-> FALSE, live |-> {}] : r \in InitRegistries }

BootStates(mode) ==
  BootStopped
  \cup
  { [file |-> RunningRegistry(mode), composeFile |-> TRUE, live |-> l] :
      l \in {{}, {CidOf(mode)}} }

\* Overlapping API calls.  The contents of the log buffers are left out of
\* this specification: they record the order in which overlapping calls ran
\* and say nothing about the registry.
Init ==
  /\ hostMode \in {"docker", "casaos"}
  /\ \E st \in BootStates(hostMode) :
       /\ file = st.file
       /\ composeFile = [b \in BotIds |-> b = "A" /\ st.composeFile]
       /\ live = [b \in BotIds |-> IF b = "A" THEN st.live ELSE {}]
       /\ image = [b \in BotIds |-> b = "A" /\ st.composeFile]
  /\ micro = <<>>
  /\ wq = <<>>
  /\ wbusy = FALSE
  /\ ops = [o \in OpIds |-> IdleFrame]
  /\ nops = 0
  /\ log = [b \in BotIds |-> <<>>]
  /\ lgen = [b \in BotIds |-> 0]
  /\ cachedMode = "none"
  /\ ideal = file
  /\ boot = [Booted EXCEPT !.pc = "start"]
  /\ post = [b \in BotIds |-> "never"]
  /\ dp = NoDeploy
  /\ sse = NoStream
  /\ sub = NoSubst
  /\ doc = NoDoc
  /\ deleted = {}
  /\ lastRet = NoRet
  /\ serial = FALSE
  /\ logged = FALSE
  /\ logs = <<>>
  /\ nadd = 0
  /\ wst = NoQueue
  /\ det = NoDet

Next ==
  \/ SyncStart
  \/ SyncFinish
  \/ RunWrite
  \/ ChainTick
  \/ Hop
  \/ CallCreate
  \/ ContinueCreate
  \/ CallUpdate
  \/ CallDelete
  \/ ContinueDelete
  \/ CallBuild
  \/ ContinueBuild
  \/ CallStart
  \/ ContinueStart
  \/ CallStop
  \/ ContinueStop
  \/ CallRestart
  \/ ContinueRestart
  \/ CallPull
  \/ ContinuePull

Spec == Init /\ [][Next]_vars

\* The same program driven by a client that waits for each response.
InitSerial ==
  /\ hostMode \in {"docker", "casaos"}
  /\ \E st \in BootStopped :
       /\ file = st.file
       /\ composeFile = [b \in BotIds |-> b = "A" /\ st.composeFile]
       /\ live = [b \in BotIds |-> IF b = "A" THEN st.live ELSE {}]
       /\ image = [b \in BotIds |-> b = "A" /\ st.composeFile]
  /\ micro = <<>>
  /\ wq = <<>>
  /\ wbusy = FALSE
  /\ ops = [o \in OpIds |-> IdleFrame]
  /\ nops = 0
  /\ log = [b \in BotIds |-> <<>>]
  /\ lgen = [b \in BotIds |-> 0]
  /\ cachedMode = "none"
  /\ ideal = file
  /\ boot = [Booted EXCEPT !.pc = "start"]
  /\ post = [b \in BotIds |-> "never"]
  /\ dp = NoDeploy
  /\ sse = NoStream
  /\ sub = NoSubst
  /\ doc = NoDoc
  /\ deleted = {}
  /\ lastRet = NoRet
  /\ serial = TRUE
  /\ logged = TRUE
  /\ logs = <<>>
  /\ nadd = 0
  /\ wst = NoQueue
  /\ det = NoDet

SpecSerial == InitSerial /\ [][Next]_vars

\* One LogCollector on its own.  An entry is the number of the addLog call
\* that made it, counted from the last clear().
LogInit ==
  /\ file = Registry("git")
  /\ micro = <<>>
  /\ wq = <<>>
  /\ wbusy = FALSE
  /\ ops = [o \in OpIds |-> IdleFrame]
  /\ nops = 0
  /\ log = [b \in BotIds |-> <<>>]
  /\ lgen = [b \in BotIds |-> 0]
  /\ composeFile = [b \in BotIds |-> FALSE]
  /\ cachedMode = "none"
  /\ hostMode = "docker"
  /\ live = [b \in BotIds |-> {}]
  /\ ideal = file
  /\ deleted = {}
  /\ lastRet = NoRet
  /\ serial = TRUE
  /\ logged = TRUE
  /\ boot = Booted
  /\ post = [b \in BotIds |-> "never"]
  /\ dp = NoDeploy
  /\ sse = NoStream
  /\ sub = NoSubst
  /\ doc = NoDoc
  /\ image = [b \in BotIds |-> FALSE]
  /\ logs = <<>>
  /\ nadd = 0
  /\ wst = NoQueue
  /\ det = NoDet

LogRest ==
  UNCHANGED <<file, micro, wq, wbusy, ops, nops, log, lgen, composeFile,
              cachedMode, hostMode, live, ideal, deleted, lastRet, serial,
              logged, boot, post, image, dp, sse, sub, doc,
              wst, det>>

\* log.addLog(message, type)
LogAdd ==
  /\ nadd < MaxAppends
  /\ logs' = addLog(logs, nadd + 1)
  /\ nadd' = nadd + 1
  /\ LogRest

\* log.clear()
LogClear ==
  /\ nadd > 0
  /\ logs' = clear(logs)
  /\ nadd' = 0
  /\ LogRest

LogNext == LogAdd \/ LogClear

SpecLog == LogInit /\ [][LogNext]_vars

\* One call of casaosApi.deployApp, with time in seconds.  proc is what the
\* `docker compose up` process does: it "exits" by itself with code 0 or 1 at
\* some time, it "hangs" until it is signalled, or it "ignores" SIGTERM too.
DeployInit ==
  /\ file = Registry("git")
  /\ micro = <<>>
  /\ wq = <<>>
  /\ wbusy = FALSE
  /\ ops = [o \in OpIds |-> IdleFrame]
  /\ nops = 0
  /\ log = [b \in BotIds |-> <<>>]
  /\ lgen = [b \in BotIds |-> 0]
  /\ composeFile = [b \in BotIds |-> FALSE]
  /\ cachedMode = "casaos"
  /\ hostMode = "casaos"
  /\ live = [b \in BotIds |-> {}]
  /\ ideal = file
  /\ deleted = {}
  /\ lastRet = NoRet
  /\ serial = TRUE
  /\ logged = TRUE
  /\ boot = Booted
  /\ post = [b \in BotIds |-> "never"]
  /\ image = [b \in BotIds |-> FALSE]
  /\ sse = NoStream
  /\ sub = NoSubst
  /\ doc = NoDoc
  /\ logs = <<>>
  /\ nadd = 0
  /\ wst = NoQueue
  /\ det = NoDet
  /\ \E t \in 1..MaxTimeout, pr \in {"exits", "hangs", "ignores"} :
       dp = [NoDeploy EXCEPT !.timeoutS = t, !.timer = "armed", !.proc = pr,
                             !.alive = TRUE, !.closed = FALSE]

DeployRest ==
  UNCHANGED <<file, micro, wq, wbusy, ops, nops, log, lgen, composeFile,
              cachedMode, hostMode, live, ideal, deleted, lastRet, serial,
              logged, boot, post, image, sse, sub, doc, logs, nadd,
              wst, det>>

\* child.kill(signal): the signal is sent when the process still exists, and
\* child.killed becomes true once a signal has been sent.
kill(d, signal) ==
  IF d.alive
    THEN [d EXCEPT !.killed = TRUE, !.sigs = Append(@, signal)]
    ELSE d

\* Time passes while no timer is due.
DeployTick ==
  /\ dp.now < MaxTimeout + graceS + 1
  /\ ~(dp.timer = "armed" /\ dp.now = dp.timeoutS)
  /\ ~(dp.grace = "armed" /\ dp.now = dp.graceAt)
  /\ dp' = [dp EXCEPT !.now = @ + 1]
  /\ DeployRest

\* lines 114-118: the timeout callback
DeployTimeout ==
  /\ dp.timer = "armed"
  /\ dp.now = dp.timeoutS
  /\ dp' = [kill(dp, "SIGTERM") EXCEPT
              !.timer = "fired",
              !.grace = "armed",
              !.graceAt = dp.now + graceS,
              !.res = IF @ = "none" THEN "timeout" ELSE @]
  /\ DeployRest

\* line 116: the callback of the inner timer
DeployGrace ==
  /\ dp.grace = "armed"
  /\ dp.now = dp.graceAt
  /\ dp' = [(IF ~dp.killed THEN kill(dp, "SIGKILL") ELSE dp) EXCEPT
              !.grace = "fired"]
  /\ DeployRest

\* The process ends: by itself, on a SIGTERM it does not ignore, on SIGKILL.
DeployExit ==
  /\ dp.alive
  /\ \E c \in {0, 1} :
       /\ \/ dp.proc = "exits" /\ dp.sigs = <<>>
          \/ /\ c = 1
             /\ \/ dp.proc # "ignores" /\ dp.sigs # <<>>
                \/ \E i \in DOMAIN dp.sigs : dp.sigs[i] = "SIGKILL"
       /\ dp' = [dp EXCEPT !.alive = FALSE, !.code = c]
  /\ DeployRest

\* lines 132-147: the 'close' event
DeployClose ==
  /\ ~dp.alive
  /\ ~dp.closed
  /\ dp' = [dp EXCEPT
              !.closed = TRUE,
              !.timer = IF @ = "armed" THEN "cleared" ELSE @,
              !.res = IF @ # "none" THEN @
                      ELSE IF dp.code = 0 THEN "success" ELSE "failed"]
  /\ DeployRest

DeployNext ==
  \/ DeployTick
  \/ DeployTimeout
  \/ DeployGrace
  \/ DeployExit
  \/ DeployClose

SpecDeploy == DeployInit /\ [][DeployNext]_vars

\* One client of GET /:id/build-logs and the collector of its bot.  got is
\* what has been written to the client's response (the greeting and the pings
\* left aside), base the number of addLog calls since the last clear() when
\* the client connected.
StreamInit == LogInit

StreamRest ==
  UNCHANGED <<file, micro, wq, wbusy, ops, nops, log, lgen, composeFile,
              cachedMode, hostMode, live, ideal, deleted, lastRet, serial,
              logged, boot, post, image, dp, sub, doc,
              wst, det>>

\* log.addLog(message, type) of the running operation: push, trim, then
\* emit('log', entry), which calls onLog (lines 308-312) at once.
StreamAdd ==
  /\ nadd < MaxAppends
  /\ sse.state = "open" => nadd - sse.base < MaxLive
  /\ logs' = addLog(logs, nadd + 1)
  /\ nadd' = nadd + 1
  /\ sse' = IF sse.state = "open"
              THEN [sse EXCEPT !.got = Append(@, nadd + 1)]
              ELSE sse
  /\ StreamRest

\* log.clear() of the operation that starts next
StreamClear ==
  /\ nadd > 0
  /\ sse.state # "open"
  /\ logs' = clear(logs)
  /\ nadd' = 0
  /\ UNCHANGED sse
  /\ StreamRest

\* lines 277-314: the handler replays getLogs() and subscribes, in one run
StreamConnectMut ==
  /\ sse.state = "none"
  /\ sse' = [state |-> "open", got |-> <<>>, base |-> nadd]
  /\ UNCHANGED <<logs, nadd>>
  /\ StreamRest

StreamConnect ==
  /\ sse.state = "none"
  /\ sse' = [state |-> "open", got |-> getLogs(logs), base |-> nadd]
  /\ UNCHANGED <<logs, nadd>>
  /\ StreamRest

\* lines 323-327: the client disconnects, the listener is removed and the
\* response ended
StreamClose ==
  /\ sse.state = "open"
  /\ sse' = [NoStream EXCEPT !.state = "closed"]
  /\ UNCHANGED <<logs, nadd>>
  /\ StreamRest

StreamNext ==
  \/ StreamAdd
  \/ StreamClear
  \/ StreamConnect
  \/ StreamClose

SpecStream == StreamInit /\ [][StreamNext]_vars

\* ------------------------------------------------- variable substitution
\* A text is a sequence of tokens: the characters '$', '{', '}', '-' and
\* words, which stand for runs of [A-Za-z0-9_].
Tokens == {"$", "{", "}", "-", "PUID", "MODE"}
WordTokens == {"PUID", "MODE", "HOME", "1000"}

Texts(S, n) == UNION { [1..k -> S] : k \in 0..n }

\* Object.entries(buildSubstitutionVariables(bot)): the standard variables
\* (PUID stands for them), then the bot's envVars (MODE), in insertion order.
VarEntries(bot) == << <<"PUID", bot.PUID>>, <<"MODE", bot.envVars.MODE>> >>

Drop(s, n) == SubSeq(s, n + 1, Len(s))

Range(s) == {s[i] : i \in 1..Len(s)}

\* result.split(`${key}`).join(value) with the braces written out
RECURSIVE ReplaceBraced(_, _, _)
ReplaceBraced(s, key, value) ==
  IF s = <<>> THEN <<>>
  ELSE IF Len(s) >= 4 /\ SubSeq(s, 1, 4) = <<"$", "{", key, "}">>
    THEN value \o ReplaceBraced(Drop(s, 4), key, value)
    ELSE <<Head(s)>> \o ReplaceBraced(Tail(s), key, value)

\* String.prototype.replace reads its replacement as a pattern: '$$' inserts a
\* single '$'.  Of the other patterns, '$&', '$`' and "$'" need characters no
\* text here holds, and '$1' names a group the expression does not have and
\* is inserted as it stands.
RECURSIVE GetSubstitution(_)
GetSubstitution(value) ==
  IF value = <<>> THEN <<>>
  ELSE IF Len(value) >= 2 /\ SubSeq(value, 1, 2) = <<"$", "$">>
    THEN <<"$">> \o GetSubstitution(Drop(value, 2))
    ELSE <<Head(value)>> \o GetSubstitution(Tail(value))

\* result.replace(/\$key(?![A-Za-z0-9_])/g, value)
RECURSIVE ReplaceDollar(_, _, _)
ReplaceDollar(s, key, value) ==
  IF s = <<>> THEN <<>>
  ELSE IF /\ Len(s) >= 2
          /\ SubSeq(s, 1, 2) = <<"$", key>>
          /\ (Len(s) >= 3 => s[3] \notin WordTokens)
    THEN GetSubstitution(value) \o ReplaceDollar(Drop(s, 2), key, value)
    ELSE <<Head(s)>> \o ReplaceDollar(Tail(s), key, value)

\* lines 244-251: one variable after the other, each in both formats
RECURSIVE SubstituteAll(_, _)
SubstituteAll(result, entries) ==
  IF entries = <<>> THEN result
  ELSE LET key == Head(entries)[1]
           value == Head(entries)[2]
       IN SubstituteAll(
            ReplaceDollar(ReplaceBraced(result, key, value), key, value),
            Tail(entries))

applyVariableSubstitution(compose, bot) ==
  SubstituteAll(compose, VarEntries(bot))

\* A value of the bot's variable: words and '-' only, so it holds no '$' and
\* nothing shaped like a placeholder.
SubstValues == Texts({"PUID", "MODE", "-"}, MaxVal)

SubstBot == [PUID |-> sub.PUID, envVars |-> [MODE |-> sub.MODE]]

\* No call of the registry, the log collector, a deployment or a stream is
\* under way while a text is substituted or a document is transformed.
SubstQuiet ==
  /\ file = Registry("git")
  /\ micro = <<>>
  /\ wq = <<>>
  /\ wbusy = FALSE
  /\ ops = [o \in OpIds |-> IdleFrame]
  /\ nops = 0
  /\ log = [b \in BotIds |-> <<>>]
  /\ lgen = [b \in BotIds |-> 0]
  /\ composeFile = [b \in BotIds |-> FALSE]
  /\ cachedMode = "none"
  /\ hostMode = "docker"
  /\ live = [b \in BotIds |-> {}]
  /\ ideal = file
  /\ deleted = {}
  /\ lastRet = NoRet
  /\ serial = TRUE
  /\ logged = TRUE
  /\ boot = Booted
  /\ post = [b \in BotIds |-> "never"]
  /\ image = [b \in BotIds |-> FALSE]
  /\ dp = NoDeploy
  /\ sse = NoStream
  /\ logs = <<>>
  /\ nadd = 0

\* PUID has its default, '1000'.
SubstInit ==
  /\ SubstQuiet
  /\ wst = NoQueue
  /\ det = NoDet
  /\ doc = NoDoc
  /\ \E d \in Texts(Tokens, MaxDoc), v \in SubstValues :
       sub = [NoSubst EXCEPT !.pc = "input", !.compose = d,
                             !.PUID = <<"1000">>, !.MODE = v]

SubstRest ==
  UNCHANGED <<file, micro, wq, wbusy, ops, nops, log, lgen, composeFile,
              cachedMode, hostMode, live, ideal, deleted, lastRet, serial,
              logged, boot, post, image, dp, sse, doc, logs, nadd,
              wst, det>>

\* applyVariableSubstitution(D, B)
SubstOnce ==
  /\ sub.pc = "input"
  /\ sub' = [sub EXCEPT !.pc = "once",
                        !.once = applyVariableSubstitution(sub.compose,
                                                           SubstBot)]
  /\ SubstRest

\* applyVariableSubstitution(applyVariableSubstitution(D, B), B)
SubstTwice ==
  /\ sub.pc = "once"
  /\ sub' = [sub EXCEPT !.pc = "twice",
                        !.twice = applyVariableSubstitution(sub.once, SubstBot)]
  /\ SubstRest

SubstNext == SubstOnce \/ SubstTwice

SpecSubst == SubstInit /\ [][SubstNext]_vars

\* Any text and any values: HOME is a name that is no variable, a standard
\* variable may hold a word that is another variable's name, and a bot's
\* variable may hold '$' (a password, say).
RawTokens == Tokens \cup {"HOME"}

RawInit ==
  /\ SubstQuiet
  /\ wst = NoQueue
  /\ det = NoDet
  /\ doc = NoDoc
  /\ \E d \in Texts(RawTokens, MaxText), u \in {<<"1000">>, <<"MODE">>},
        v \in Texts({"$", "-"}, MaxRaw) :
       sub = [NoSubst EXCEPT !.pc = "input", !.compose = d,
                             !.PUID = u, !.MODE = v]

SpecRaw == RawInit /\ [][SubstNext]_vars

\* ------------------------------------------------- compose document (YAML)
\* A JavaScript value as doc.toJSON() gives it: a string is a text (a
\* sequence of tokens), an object is the sequence of its entries <<key,
\* value>> in insertion order.
Undefined == [t |-> "undefined"]
Null == [t |-> "null"]
Str(v) == [t |-> "str", v |-> v]
Num(v) == [t |-> "num", v |-> v]
Bool(v) == [t |-> "bool", v |-> v]
List(v) == [t |-> "list", v |-> v]
Map(v) == [t |-> "map", v |-> v]

Has(m, k) == \E i \in 1..Len(m.v) : m.v[i][1] = k

\* m[k] and m.k
Get(m, k) ==
  IF m.t = "map" /\ Has(m, k)
    THEN m.v[CHOOSE i \in 1..Len(m.v) : m.v[i][1] = k][2]
    ELSE Undefined

\* m[k] = x: an existing key keeps its place, a new one goes last
Put(m, k, x) ==
  IF Has(m, k)
    THEN Map([i \in 1..Len(m.v) |-> IF m.v[i][1] = k THEN <<k, x>> ELSE m.v[i]])
    ELSE Map(Append(m.v, <<k, x>>))

\* delete m[k]
Delete(m, k) == Map(SelectSeq(m.v, LAMBDA e : e[1] # k))

\* if (x): undefined, null, false and '' are falsy
Truthy(x) ==
  /\ x.t \notin {"undefined", "null"}
  /\ x.t = "str" => x.v # <<>>
  /\ x.t = "bool" => x.v

\* Words that YAML reads as a number when they stand unquoted.
Numerals == {"80", "443", "8080", "8443", "9000", "1000", "2000"}

\* A plain scalar that YAML resolves to something else than a string.
Resolves(v) ==
  v = <<>> \/ (Len(v) = 1 /\ v[1] \in Numerals \cup {"true", "false", "null"})

\* stringify(compose, { lineWidth: 0 }): the YAML node of a value.  A string
\* that would be read back as a number, a boolean or null is quoted.
RECURSIVE stringify(_)
stringify(x) ==
  CASE x.t = "str" -> [t |-> "scalar", quoted |-> Resolves(x.v), v |-> x.v]
    [] x.t = "num" -> [t |-> "scalar", quoted |-> FALSE, v |-> x.v]
    [] x.t = "bool" ->
         [t |-> "scalar", quoted |-> FALSE,
          v |-> IF x.v THEN <<"true">> ELSE <<"false">>]
    [] x.t = "null" -> [t |-> "scalar", quoted |-> FALSE, v |-> <<"null">>]
    [] x.t = "list" -> List([i \in 1..Len(x.v) |-> stringify(x.v[i])])
    [] x.t = "map" ->
         Map([i \in 1..Len(x.v) |-> <<x.v[i][1], stringify(x.v[i][2])>>])

\* parseDocument(composeContent).toJSON(): the value of a YAML node
RECURSIVE parseDocument(_)
parseDocument(n) ==
  CASE n.t = "scalar" ->
         IF n.quoted \/ ~Resolves(n.v) THEN Str(n.v)
         ELSE IF n.v = <<>> \/ n.v = <<"null">> THEN Null
         ELSE IF n.v \in {<<"true">>, <<"false">>} THEN Bool(n.v = <<"true">>)
         ELSE Num(n.v)
    [] n.t = "list" -> List([i \in 1..Len(n.v) |-> parseDocument(n.v[i])])
    [] n.t = "map" ->
         Map([i \in 1..Len(n.v) |-> <<n.v[i][1], parseDocument(n.v[i][2])>>])

getPCSEnvironment(env) ==
  [PUID |-> IF env.PUID = <<>> THEN <<"1000">> ELSE env.PUID,
   PGID |-> IF env.PGID = <<>> THEN <<"1000">> ELSE env.PGID,
   DATA_ROOT |-> IF env.DATA_ROOT = <<>> THEN <<"/DATA">> ELSE env.DATA_ROOT,
   REF_NET |-> IF env.REF_NET = "" THEN "pcs" ELSE env.REF_NET,
   REF_DOMAIN |-> IF env.REF_DOMAIN = <<>> THEN <<"localhost">>
                  ELSE env.REF_DOMAIN,
   REF_SEPARATOR |-> IF env.REF_SEPARATOR = <<>> THEN <<"-">>
                     ELSE env.REF_SEPARATOR]

getMainServiceName(compose) ==
  LET main == Get(Get(compose, "x-casaos"), "main")
      services == Get(compose, "services")
  IN IF Truthy(main) /\ main.t = "str" THEN main.v[1]
     ELSE IF Truthy(services) /\ services.t = "map" /\ services.v # <<>>
       THEN services.v[1][1]
     ELSE "null"

\* key.toUpperCase(), and the 'i' flag of /^PUID=/i
toUpperCase(key) ==
  CASE key = "puid" -> "PUID" [] key = "pgid" -> "PGID" [] OTHER -> key

hasPUIDInEnvMut(env) ==
  IF env.t = "map"
    THEN \E i \in 1..Len(env.v) : toUpperCase(env.v[i][1]) = "PUID"
  ELSE FALSE

hasPUIDInEnv(env) ==
  IF env.t = "list"
    THEN \E i \in 1..Len(env.v) :
           /\ env.v[i].t = "str"
           /\ Len(env.v[i].v) >= 2
           /\ toUpperCase(env.v[i].v[1]) = "PUID"
           /\ env.v[i].v[2] = "="
  ELSE IF env.t = "map"
    THEN \E i \in 1..Len(env.v) : toUpperCase(env.v[i][1]) = "PUID"
  ELSE FALSE

rewriteVolumeMut(volume, pcs) ==
  IF volume.t = "str"
    THEN IF volume.v # <<>> /\ Head(volume.v) = "/DATA"
           THEN Str(GetSubstitution(pcs.DATA_ROOT) \o Tail(volume.v))
           ELSE volume
  ELSE volume

\* lines 359-370: volume.replace(/^\/DATA/, pcs.DATA_ROOT)
rewriteVolume(volume, pcs) ==
  IF volume.t = "str"
    THEN IF volume.v # <<>> /\ Head(volume.v) = "/DATA"
           THEN Str(GetSubstitution(pcs.DATA_ROOT) \o Tail(volume.v))
           ELSE volume
  ELSE IF volume.t = "map"
    THEN LET source == Get(volume, "source")
         IN IF source.t = "str" /\ source.v # <<>> /\ Head(source.v) = "/DATA"
              THEN Put(volume, "source",
                       Str(GetSubstitution(pcs.DATA_ROOT) \o Tail(source.v)))
              ELSE volume
  ELSE volume

\* lines 357-372
rewriteVolumes(service, pcs) ==
  LET volumes == Get(service, "volumes")
  IN IF volumes.t = "list"
       THEN Put(service, "volumes",
                List([i \in 1..Len(volumes.v) |->
                        rewriteVolume(volumes.v[i], pcs)]))
       ELSE service

\* lines 374-392
injectNetwork(service, serviceName, mainServiceName, pcs) ==
  LET mode == Get(service, "network_mode")
      made == IF Truthy(Get(service, "networks")) THEN service
              ELSE Put(service, "networks", List(<<>>))
      networks == Get(made, "networks")
  IN IF serviceName # mainServiceName \/ pcs.REF_NET = "" THEN service
     ELSE IF Truthy(mode) /\ mode # Str(<<"bridge">>) THEN service
     ELSE IF networks.t = "list"
       THEN IF \E i \in 1..Len(networks.v) : networks.v[i] = Str(<<pcs.REF_NET>>)
              THEN made
              ELSE Put(made, "networks",
                       List(Append(networks.v, Str(<<pcs.REF_NET>>))))
     ELSE IF networks.t = "map"
       THEN IF Has(networks, pcs.REF_NET) THEN made
            ELSE Put(made, "networks", Put(networks, pcs.REF_NET, Map(<<>>)))
     ELSE made

\* lines 394-407
injectIdentity(service, pcs) ==
  LET made == IF Truthy(Get(service, "environment")) THEN service
              ELSE Put(service, "environment", Map(<<>>))
      environment == Get(made, "environment")
  IN IF hasPUIDInEnv(environment) THEN made
     ELSE IF environment.t = "list"
       THEN Put(made, "environment",
                List(environment.v
                       \o <<Str(<<"PUID", "=">> \o pcs.PUID),
                            Str(<<"PGID", "=">> \o pcs.PGID)>>))
     ELSE IF environment.t = "map"
       THEN Put(made, "environment",
                Put(Put(environment, "PUID", Str(pcs.PUID)),
                    "PGID", Str(pcs.PGID)))
     ELSE made

\* lines 410-419
defineNetwork(compose, pcs) ==
  LET made == IF Truthy(Get(compose, "networks")) THEN compose
              ELSE Put(compose, "networks", Map(<<>>))
      networks == Get(made, "networks")
  IN IF pcs.REF_NET = "" THEN compose
     ELSE IF Truthy(Get(networks, pcs.REF_NET)) THEN made
     ELSE Put(made, "networks",
              Put(networks, pcs.REF_NET, Map(<< <<"external", Bool(TRUE)>> >>)))

\* One service after the other, in the order of Object.entries(services).
EachService(compose, F(_, _)) ==
  LET services == Get(compose, "services")
  IN Put(compose, "services",
         Map([i \in 1..Len(services.v) |->
                <<services.v[i][1], F(services.v[i][1], services.v[i][2])>>]))

applyPCSProcessing(composeContent, env) ==
  LET pcs == getPCSEnvironment(env)
      compose == parseDocument(composeContent)
      mainServiceName == getMainServiceName(compose)
      service(name, s) ==
        injectIdentity(
          injectNetwork(rewriteVolumes(s, pcs), name, mainServiceName, pcs),
          pcs)
  IN IF ~Truthy(Get(compose, "services")) THEN composeContent
     ELSE stringify(defineNetwork(EachService(compose, service), pcs))

\* s.split(sep): the texts between the separators
RECURSIVE Split(_, _)
Split(s, sep) ==
  IF \A i \in 1..Len(s) : s[i] # sep THEN <<s>>
  ELSE LET i == CHOOSE j \in 1..Len(s) :
                  s[j] = sep /\ \A k \in 1..(j - 1) : s[k] # sep
       IN <<SubSeq(s, 1, i - 1)>> \o Split(Drop(s, i), sep)

\* lines 450-467: the container side of one entry of ports, '' for none
containerPortOf(portMapping) ==
  IF portMapping.t = "str"
    THEN LET parts == Split(portMapping.v, ":")
         IN Head(Split(parts[Len(parts)], "/"))
  ELSE IF portMapping.t \in {"map", "list"}
    THEN LET target == Get(portMapping, "target")
         IN CASE target.t = "undefined" -> <<>>
              [] target.t = "null" -> <<"null">>
              [] target.t \in {"str", "num"} -> target.v
              [] OTHER -> <<"[object Object]">>
  ELSE <<>>

\* lines 447-468: exposedPorts after the entries from index i on
RECURSIVE exposedPorts(_, _, _)
exposedPorts(ports, i, acc) ==
  IF i > Len(ports) THEN acc
  ELSE LET containerPort == containerPortOf(ports[i])
           skip == \/ /\ ports[i].t = "str"
                      /\ containerPort = <<>>
                   \/ /\ ports[i].t \in {"map", "list"}
                      /\ Get(ports[i], "target").t = "undefined"
                   \/ ports[i].t \notin {"str", "map", "list"}
                   \/ \E j \in 1..Len(acc) : acc[j] = Str(containerPort)
       IN exposedPorts(ports, i + 1,
                       IF skip THEN acc ELSE Append(acc, Str(containerPort)))

\* lines 445-474
portsToExpose(service) ==
  LET ports == Get(service, "ports")
      exposed == exposedPorts(ports.v, 1, <<>>)
  IN IF ports.t # "list" THEN service
     ELSE Delete(IF exposed # <<>> THEN Put(service, "expose", List(exposed))
                 ELSE service,
                 "ports")

\* lines 476-492
mainMetadata(service, compose, appName) ==
  LET named == Put(service, "hostname", Str(appName))
      icon == Get(Get(compose, "x-casaos"), "icon")
      made == IF Truthy(Get(named, "labels")) THEN named
              ELSE Put(named, "labels", Map(<<>>))
      labels == Get(made, "labels")
  IN IF ~(Truthy(icon) /\ icon.t = "str") THEN named
     ELSE IF labels.t = "map"
       THEN Put(made, "labels", Put(labels, "icon", icon))
     ELSE made

\* lines 495-507
casaosFields(compose, appName, pcs) ==
  LET made == IF Truthy(Get(compose, "x-casaos")) THEN compose
              ELSE Put(compose, "x-casaos", Map(<<>>))
      fields == Put(Put(Get(made, "x-casaos"), "is_uncontrolled", Bool(FALSE)),
                    "store_app_id", Str(appName))
  IN Put(made, "x-casaos",
         IF pcs.REF_DOMAIN # <<>> /\ pcs.REF_DOMAIN # <<"localhost">>
           THEN Put(fields, "hostname",
                    Str(appName \o pcs.REF_SEPARATOR \o pcs.REF_DOMAIN))
           ELSE fields)

applyCasaOSMetadata(composeContent, appName, env) ==
  LET pcs == getPCSEnvironment(env)
      compose == parseDocument(composeContent)
      mainServiceName == getMainServiceName(compose)
      service(name, s) ==
        IF name = mainServiceName
          THEN mainMetadata(portsToExpose(s), compose, appName)
          ELSE portsToExpose(s)
  IN IF ~Truthy(Get(compose, "services")) THEN composeContent
     ELSE stringify(casaosFields(EachService(compose, service), appName, pcs))

\* ---- compose documents that are transformed
\* The objects of at most MaxEntries entries, no key twice, and the lists
\* of at most MaxEntries elements, none twice.
Objects(S) ==
  {s \in Texts(S, MaxEntries) :
     \A i, j \in 1..Len(s) : s[i][1] = s[j][1] => i = j}

Distinct(S) ==
  {s \in Texts(S, MaxEntries) : \A i, j \in 1..Len(s) : s[i] = s[j] => i = j}

\* A service with the given values; a value that is undefined has no key.
Service(fields) ==
  Map(<< <<"image", Str(<<"node">>)>> >>
        \o SelectSeq(fields, LAMBDA e : e[2].t # "undefined"))

Compose(services, rest) ==
  stringify(Map(<< <<"services", Map(services)>> >>
                  \o SelectSeq(rest, LAMBDA e : e[2].t # "undefined")))

NoEnv == [PUID |-> <<>>, PGID |-> <<>>, DATA_ROOT |-> <<>>, REF_NET |-> "",
          REF_DOMAIN |-> <<>>, REF_SEPARATOR |-> <<>>]

\* environment: absent, empty, a list of KEY=VALUE or a mapping
EnvKeys == {"PUID", "puid", "PGID", "TZ"}
EnvForms ==
  {Undefined, Null}
    \cup {List(s) : s \in Texts({Str(<<k, "=", v>>) :
                                   k \in EnvKeys, v \in {"1000", "2000"}},
                                MaxEntries)}
    \cup {Map(s) : s \in Objects(EnvKeys \X {Num(<<"2000">>), Str(<<"1000">>)})}

EnvDocs ==
  {[env |-> [NoEnv EXCEPT !.PUID = u],
    compose |-> Compose(<< <<"web", Service(<< <<"environment", e>> >>)>> >>
                          \o d, <<>>)] :
     u \in {<<>>, <<"2000">>}, e \in EnvForms,
     d \in {<<>>} \cup
           {<< <<"db", Service(<< <<"environment", f>> >>)>> >> :
              f \in {Undefined, List(<<Str(<<"PGID", "=", "2000">>)>>),
                     Map(<< <<"TZ", Str(<<"UTC">>)>> >>)}}}

\* volumes: short syntax, long syntax, with and without the prefix /DATA
VolumeForms ==
  {Str(<<"/DATA", "/x", ":", "/app">>), Str(<<"/DATA", "BASE", ":", "/app">>),
   Str(<<"/srv", ":", "/DATA">>), Str(<<"data", ":", "/app">>),
   Map(<< <<"type", Str(<<"bind">>)>>, <<"source", Str(<<"/DATA", "/x">>)>>,
          <<"target", Str(<<"/app">>)>> >>),
   Map(<< <<"type", Str(<<"bind">>)>>, <<"source", Str(<<"/srv">>)>>,
          <<"target", Str(<<"/DATA">>)>> >>),
   Map(<< <<"type", Str(<<"tmpfs">>)>>, <<"target", Str(<<"/DATA">>)>> >>)}

VolumeDocs ==
  {[env |-> [NoEnv EXCEPT !.DATA_ROOT = r],
    compose |-> Compose(<< <<"web", Service(<< <<"volumes", v>> >>)>> >>,
                        <<>>)] :
     r \in {<<>>, <<"/mnt">>, <<"/DATA", "/t1">>},
     v \in {Undefined} \cup {List(s) : s \in Texts(VolumeForms, MaxEntries)}}

\* networks of the services and of the document, and the main service
NetworkForms ==
  {Undefined, Null}
    \cup {List(s) : s \in Distinct({Str(<<n>>) : n \in {"pcs", "back"}})}
    \cup {Map(s) : s \in Objects({"pcs", "back"} \X {Null})}

NetworkDocs ==
  {[env |-> NoEnv,
    compose |->
      Compose(<< <<"web", Service(<< <<"network_mode", m>>,
                                     <<"networks", n>> >>)>> >> \o d,
              << <<"networks", t>>, <<"x-casaos", x>> >>)] :
     m \in {Undefined, Str(<<"bridge">>), Str(<<"host">>)},
     n \in NetworkForms,
     d \in {<<>>, << <<"db", Service(<<>>)>> >>},
     t \in {Undefined, Map(<< <<"back", Null>> >>),
            Map(<< <<"pcs", Null>> >>),
            Map(<< <<"pcs", Map(<< <<"external", Bool(TRUE)>> >>)>> >>),
            Map(<< <<"pcs", Map(<< <<"driver", Str(<<"bridge">>)>> >>)>> >>)},
     x \in {Undefined} \cup
           {Map(<< <<"main", Str(<<s>>)>> >>) : s \in {"web", "db", "api"}}}

\* ports: 'host:container', 'ip:host:container', with a protocol, a bare
\* port as text and as number, and the structured form
PortForms ==
  {Str(<<"8080", ":", "80">>), Str(<<"8080", ":", "80", "/", "tcp">>),
   Str(<<"127.0.0.1", ":", "8443", ":", "443">>),
   Str(<<"443">>), Num(<<"443">>),
   Map(<< <<"target", Num(<<"80">>)>>, <<"published", Num(<<"8080">>)>> >>),
   Map(<< <<"target", Str(<<"443">>)>> >>)}

PortDocs ==
  {[env |-> NoEnv,
    compose |-> Compose(<< <<"web", Service(<< <<"ports", List(p)>>,
                                               <<"expose", e>> >>)>> >>,
                        <<>>)] :
     p \in Texts(PortForms, MaxEntries),
     e \in {Undefined, List(<<Str(<<"9000">>)>>)}}

AppNameA == <<"bot-A">>

DocInit ==
  /\ SubstQuiet
  /\ wst = NoQueue
  /\ det = NoDet
  /\ sub = NoSubst
  /\ \E d \in EnvDocs \cup VolumeDocs \cup NetworkDocs \cup PortDocs :
       doc = [pc |-> "input", env |-> d.env, compose |-> d.compose]

DocRest ==
  UNCHANGED <<file, micro, wq, wbusy, ops, nops, log, lgen, composeFile,
              cachedMode, hostMode, live, ideal, deleted, lastRet, serial,
              logged, boot, post, image, dp, sse, sub, logs, nadd,
              wst, det>>

\* applyPCSProcessing(D)
PcsOnce ==
  /\ doc.pc = "input"
  /\ doc' = [pc |-> "once", env |-> doc.env, compose |-> doc.compose,
             once |-> applyPCSProcessing(doc.compose, doc.env)]
  /\ DocRest

\* applyPCSProcessing(applyPCSProcessing(D))
PcsTwice ==
  /\ doc.pc = "once"
  /\ doc' = [pc |-> "twice", env |-> doc.env, compose |-> doc.compose,
             once |-> doc.once,
             twice |-> applyPCSProcessing(doc.once, doc.env)]
  /\ DocRest

\* applyCasaOSMetadata(D, appName)
CasaOSMetadata ==
  /\ doc.pc = "input"
  /\ doc' = [pc |-> "metadata", env |-> doc.env, compose |-> doc.compose,
             metadata |-> applyCasaOSMetadata(doc.compose, AppNameA, doc.env)]
  /\ DocRest

DocNext == PcsOnce \/ PcsTwice \/ CasaOSMetadata

SpecDoc == DocInit /\ [][DocNext]_vars

\* ------------------------------------------------- compose document (text)
\* content.split('\n'): a line is its indent (line.length minus
\* line.trimStart().length) and its trimmed text, a sequence of tokens:
\* words, ':', ' ', '"', '-' and '#'.  The empty line is L(0, <<>>).
L(indent, text) == [indent |-> indent, text |-> text]

\* trimmed.endsWith(':') && !trimmed.includes(' ')
IsKey(trimmed) ==
  /\ trimmed # <<>>
  /\ trimmed[Len(trimmed)] = ":"
  /\ " " \notin Range(trimmed)

\* content.includes('managed-by')
IncludesManagedBy(lines) ==
  \E i \in 1..Len(lines) : "managed-by" \in Range(lines[i].text)

\* the three label lines, lines 425-428
labelLines(bot) ==
  <<L(6, <<"managed-by", ":", " ", "\"", "discord-bot-manager", "\"">>),
    L(6, <<"bot-id", ":", " ", "\"", bot.id, "\"">>),
    L(6, <<"bot-name", ":", " ", "\"", bot.name, "\"">>)>>

labelsBlock(bot) == <<L(4, <<"labels", ":">>)>> \o labelLines(bot)

\* lines 412-473: the loop body for lines[i], on the loop's variables
addLabelsToLine(lines, i, s, bot) ==
  LET line == lines[i]
      trimmed == line.text
      service == s.inServices /\ IsKey(trimmed) /\ line.indent = 2
      \* lines 424-440
      a == IF service
             THEN [s EXCEPT !.result =
                              IF s.inServiceBlock /\ ~s.hasLabels
                                THEN s.result \o labelsBlock(bot)
                                ELSE s.result,
                            !.inServiceBlock = TRUE,
                            !.hasLabels = FALSE]
             ELSE s
      top == a.inServices /\ IsKey(trimmed) /\ line.indent = 0
  IN IF trimmed = <<"services", ":">>
       THEN [s EXCEPT !.inServices = TRUE, !.result = Append(s.result, line)]
     ELSE IF a.inServiceBlock /\ trimmed = <<"labels", ":">>
       THEN [a EXCEPT !.hasLabels = TRUE,
                      !.result =
                        Append(a.result, line)
                          \o (IF IncludesManagedBy(lines) THEN <<>>
                              ELSE labelLines(bot))]
     ELSE IF top
       THEN [a EXCEPT !.result =
                        (IF a.inServiceBlock /\ ~a.hasLabels
                           THEN a.result \o labelsBlock(bot)
                           ELSE a.result) \o <<line>>,
                      !.inServices = FALSE,
                      !.inServiceBlock = FALSE]
     ELSE [a EXCEPT !.result = Append(a.result, line)]

RECURSIVE addLabelsFrom(_, _, _, _)
addLabelsFrom(lines, i, s, bot) ==
  IF i > Len(lines) THEN s
  ELSE addLabelsFrom(lines, i + 1, addLabelsToLine(lines, i, s, bot), bot)

addBotManagerLabelsMut(content, bot) ==
  LET s == addLabelsFrom(content, 1,
                         [inServices |-> FALSE, inServiceBlock |-> FALSE,
                          hasLabels |-> FALSE, result |-> <<>>], bot)
  IN IF s.inServiceBlock
       THEN s.result \o labelsBlock(bot)
       ELSE s.result

addBotManagerLabels(content, bot) ==
  LET s == addLabelsFrom(content, 1,
                         [inServices |-> FALSE, inServiceBlock |-> FALSE,
                          hasLabels |-> FALSE, result |-> <<>>], bot)
  IN IF s.inServiceBlock /\ ~s.hasLabels
       THEN s.result \o labelsBlock(bot)
       ELSE s.result

\* composeContent.match(/^x-casaos:\s*\n((?:[ \t]+.*\n)*)/m): the lines of
\* the section.  A line is part of a match only when a '\n' ends it, which
\* the last line of the content has not; '\s*\n' takes the empty lines
\* after the key.
RECURSIVE SkipEmpty(_, _)
SkipEmpty(lines, i) ==
  IF i < Len(lines) /\ lines[i].text = <<>> THEN SkipEmpty(lines, i + 1)
  ELSE i

RECURSIVE Indented(_, _)
Indented(lines, i) ==
  IF i < Len(lines) /\ lines[i].indent > 0 /\ lines[i].text # <<>>
    THEN <<lines[i]>> \o Indented(lines, i + 1)
    ELSE <<>>

xcasaosSection(lines) ==
  LET at == {i \in 1..(Len(lines) - 1) :
               lines[i].indent = 0 /\ lines[i].text = <<"x-casaos", ":">>}
      first == CHOOSE i \in at : \A j \in at : i <= j
  IN IF at = {} THEN [found |-> FALSE, lines |-> <<>>]
     ELSE [found |-> TRUE,
           lines |-> Indented(lines, SkipEmpty(lines, first + 1))]

\* xcasaosSection.match(/^\s+build:\s*(\S+)/m): the text up to the next
\* blank after 'build:', which '\s*' looks for on the next line when the
\* line of 'build:' ends there.
NonBlank(text) ==
  IF \E i \in 1..Len(text) : text[i] = " "
    THEN SubSeq(text, 1, (CHOOSE i \in 1..Len(text) :
                            text[i] = " " /\ \A j \in 1..(i - 1) : text[j] # " ")
                           - 1)
    ELSE text

extractBuildTarget(composeContent) ==
  LET section == xcasaosSection(composeContent).lines
      at == {i \in 1..Len(section) :
               /\ Len(section[i].text) >= 2
               /\ SubSeq(section[i].text, 1, 2) = <<"build", ":">>
               /\ \/ Len(section[i].text) > 2
                  \/ i < Len(section)}
      first == CHOOSE i \in at : \A j \in at : i <= j
      rest == Drop(section[first].text, 2)
  IN IF at = {} THEN <<>>
     ELSE IF rest = <<>> THEN NonBlank(section[first + 1].text)
     ELSE IF Head(rest) = " " THEN NonBlank(Tail(rest))
     ELSE NonBlank(rest)

\* lines 621-668: the loop body for lines[i], on the loop's variables
replaceInLine(lines, i, s, serviceName, repoPath, imageName) ==
  LET line == lines[i]
      trimmed == line.text
      leaves == /\ trimmed # <<>>
                /\ line.indent <= s.serviceIndent
                /\ Head(trimmed) # "-"
      replaces == /\ s.inTargetService
               /\ ~leaves
               /\ Len(trimmed) >= 2
               /\ SubSeq(trimmed, 1, 2) = <<"image", ":">>
      a == IF s.inTargetService /\ leaves
             THEN [s EXCEPT !.inTargetService = FALSE]
             ELSE s
  IN IF trimmed = <<"services", ":">>
       THEN [s EXCEPT !.inServices = TRUE, !.result = Append(s.result, line)]
     ELSE IF s.inServices /\ trimmed = serviceName \o <<":">>
       THEN [s EXCEPT !.inTargetService = (line.indent = 2) \/ @,
                      !.serviceIndent = IF line.indent = 2 THEN 2 ELSE @,
                      !.result = Append(s.result, line)]
     ELSE IF replaces
       THEN [s EXCEPT !.result =
                        s.result
                          \o <<L(4, <<"build", ":">>),
                               L(6, <<"context", ":", " ">> \o repoPath),
                               L(6, <<"dockerfile", ":", " ", "Dockerfile">>),
                               L(4, <<"image", ":", " ">> \o imageName)>>]
     ELSE IF a.inServices /\ IsKey(trimmed) /\ line.indent = 0
       THEN [a EXCEPT !.inServices = FALSE, !.inTargetService = FALSE,
                      !.result = Append(a.result, line)]
     ELSE [a EXCEPT !.result = Append(a.result, line)]

RECURSIVE replaceFrom(_, _, _, _, _, _)
replaceFrom(lines, i, s, serviceName, repoPath, imageName) ==
  IF i > Len(lines) THEN s
  ELSE replaceFrom(lines, i + 1,
                   replaceInLine(lines, i, s, serviceName, repoPath, imageName),
                   serviceName, repoPath, imageName)

replaceServiceImageWithBuild(composeContent, serviceName, repoPath, imageName) ==
  replaceFrom(composeContent, 1,
              [inServices |-> FALSE, inTargetService |-> FALSE,
               serviceIndent |-> 0, result |-> <<>>],
              serviceName, repoPath, imageName).result

\* s1 \o s2 \o ... for a sequence of sequences
RECURSIVE Flatten(_)
Flatten(ss) == IF ss = <<>> THEN <<>> ELSE Head(ss) \o Flatten(Tail(ss))

\* lines 148-188
addDatabaseService(compose, botId, appName) ==
  LET dbVolumeName == appName \o <<"-db-data">>
      db == Map(<<
        <<"image", Str(<<"postgres", ":", "15-alpine">>)>>,
        <<"container_name", Str(appName \o <<"-db">>)>>,
        <<"restart", Str(<<"unless-stopped">>)>>,
        <<"networks", List(<<Str(<<"pcs">>)>>)>>,
        <<"environment", Map(<<
            <<"POSTGRES_USER", Str(<<"bot">>)>>,
            <<"POSTGRES_PASSWORD", Str(<<"bot_password">>)>>,
            <<"POSTGRES_DB", Str(<<"bot_data">>)>> >>)>>,
        <<"volumes", List(<<Map(<<
            <<"type", Str(<<"volume">>)>>,
            <<"source", Str(dbVolumeName)>>,
            <<"target", Str(<<"/var/lib/postgresql/data">>)>> >>)>>)>>,
        <<"labels", Map(<<
            <<"managed-by", Str(<<"discord-bot-manager">>)>>,
            <<"bot-id", Str(<<botId>>)>>,
            <<"service-type", Str(<<"database">>)>> >>)>>,
        <<"x-casaos", Map(<< <<"volumes", List(<<Map(<<
            <<"container", Str(<<"/var/lib/postgresql/data">>)>>,
            <<"description", Map(<< <<"en_us",
               Str(<<"PostgreSQL", " ", "database", " ", "storage.">>)>> >>)>>
            >>)>>)>> >>)>> >>)
      services == Put(Get(compose, "services"), "db", db)
      bot == Put(Get(services, "bot"), "depends_on", List(<<Str(<<"db">>)>>))
      environment == IF Truthy(Get(bot, "environment"))
                       THEN Get(bot, "environment") ELSE Map(<<>>)
      url == Str(<<"postgresql", ":", "//bot", ":", "bot_password@db", ":",
                   "5432/bot_data">>)
      volumes == IF Truthy(Get(compose, "volumes"))
                   THEN Get(compose, "volumes") ELSE Map(<<>>)
  IN Put(Put(compose, "services",
             Put(services, "bot",
                 Put(bot, "environment",
                     Put(environment, "DATABASE_URL", url)))),
         "volumes", Put(volumes, dbVolumeName, Map(<<>>)))

\* lines 63-145, up to the call of formatComposeYaml
generateComposeFile(bot, detection, botDir) ==
  LET appName == <<"bot-" , bot.id>>
      base == Map(<<
        <<"container_name", Str(appName \o <<"-app">>)>>,
        <<"restart", Str(<<"unless-stopped">>)>>,
        <<"networks", List(<<Str(<<"pcs">>)>>)>>,
        <<"labels", Map(<<
            <<"managed-by", Str(<<"discord-bot-manager">>)>>,
            <<"bot-id", Str(<<bot.id>>)>>,
            <<"bot-name", Str(<<bot.name>>)>> >>)>> >>)
      built == IF detection.hasDockerfile \/ detection.type # "compose"
                 THEN Put(base, "build", Map(<<
                        <<"context", Str(botDir \o <<"/repo">>)>>,
                        <<"dockerfile", Str(<<"Dockerfile">>)>> >>))
                 ELSE base
      withEnv == IF bot.envVars.v # <<>>
                   THEN Put(built, "environment", bot.envVars)
                   ELSE built
      botService ==
        Put(Put(withEnv, "volumes", List(<<Map(<<
                  <<"type", Str(<<"bind">>)>>,
                  <<"source", Str(botDir \o <<"/data">>)>>,
                  <<"target", Str(<<"/app/data">>)>> >>)>>)),
            "x-casaos", Map(<< <<"volumes", List(<<Map(<<
                  <<"container", Str(<<"/app/data">>)>>,
                  <<"description", Map(<< <<"en_us",
                     Str(<<"Persistent", " ", "data", " ", "directory", " ",
                           "for", " ", "bot", " ", "storage.">>)>> >>)>>
                  >>)>>)>> >>))
      compose == Map(<<
        <<"name", Str(appName)>>,
        <<"services", Map(<< <<"bot", botService>> >>)>>,
        <<"networks", Map(<< <<"pcs",
                               Map(<< <<"external", Bool(TRUE)>> >>)>> >>)>> >>)
      withDb == IF detection.hasDatabase /\ ~detection.hasCompose
                  THEN addDatabaseService(compose, bot.id, appName)
                  ELSE compose
      named(prefix) == Map(<< <<"en_us", Str(prefix \o <<bot.name>>)>> >>)
  IN Put(withDb, "x-casaos", Map(<<
       <<"architectures", List(<<Str(<<"amd64">>), Str(<<"arm64">>)>>)>>,
       <<"main", Str(<<"bot">>)>>,
       <<"build", Str(<<"bot">>)>>,
       <<"author", Str(<<"discord-bot-manager">>)>>,
       <<"developer", Str(<<"discord-bot-manager">>)>>,
       <<"tagline", named(<<"Discord", " ", "Bot", ":", " ">>)>>,
       <<"category", Str(<<"Utilities">>)>>,
       <<"description", named(<<"Managed", " ", "Discord", " ", "bot", ":",
                                " ">>)>>,
       <<"title", named(<<>>)>> >>))

\* line 227: /[:\s#{}[\],&*!|>'"%@`]/.test(value) || value === ''
needsQuotes(value) ==
  value = <<>> \/ Range(value) \cap {":", " ", "#", "\""} # {}

\* line 228: value.replace(/"/g, '\\"')
Escaped(value) ==
  Flatten([i \in 1..Len(value) |->
             IF value[i] = "\"" THEN <<"\\", "\"">> ELSE <<value[i]>>])

\* lines 200-263: the lines of one service
serviceLines(serviceName, service) ==
  LET list(key) == IF Get(service, key).t = "list" THEN Get(service, key).v
                   ELSE <<>>
      map(key) == IF Get(service, key).t = "map" THEN Get(service, key).v
                  ELSE <<>>
      casaos == IF Get(Get(service, "x-casaos"), "volumes").t = "list"
                  THEN Get(Get(service, "x-casaos"), "volumes").v
                  ELSE <<>>
  IN Flatten(<<
       <<L(2, <<serviceName, ":">>)>>,
       IF Truthy(Get(service, "image"))
         THEN <<L(4, <<"image", ":", " ">> \o Get(service, "image").v)>>
         ELSE <<>>,
       IF Truthy(Get(service, "build"))
         THEN <<L(4, <<"build", ":">>),
                L(6, <<"context", ":", " ">>
                       \o Get(Get(service, "build"), "context").v),
                L(6, <<"dockerfile", ":", " ">>
                       \o Get(Get(service, "build"), "dockerfile").v)>>
         ELSE <<>>,
       <<L(4, <<"container_name", ":", " ">>
                \o Get(service, "container_name").v),
         L(4, <<"restart", ":", " ">> \o Get(service, "restart").v)>>,
       IF list("depends_on") # <<>>
         THEN <<L(4, <<"depends_on", ":">>)>>
                \o [i \in 1..Len(list("depends_on")) |->
                      L(6, <<"-", " ">> \o list("depends_on")[i].v)]
         ELSE <<>>,
       IF map("environment") # <<>>
         THEN <<L(4, <<"environment", ":">>)>>
                \o [i \in 1..Len(map("environment")) |->
                      LET key == map("environment")[i][1]
                          value == map("environment")[i][2].v
                      IN L(6, <<key, ":", " ">>
                                \o (IF needsQuotes(value)
                                      THEN <<"\"">> \o Escaped(value)
                                             \o <<"\"">>
                                      ELSE value))]
         ELSE <<>>,
       IF list("volumes") # <<>>
         THEN <<L(4, <<"volumes", ":">>)>>
                \o Flatten([i \in 1..Len(list("volumes")) |->
                     <<L(6, <<"-", " ", "type", ":", " ">>
                              \o Get(list("volumes")[i], "type").v),
                       L(8, <<"source", ":", " ">>
                              \o Get(list("volumes")[i], "source").v),
                       L(8, <<"target", ":", " ">>
                              \o Get(list("volumes")[i], "target").v)>>])
         ELSE <<>>,
       IF list("networks") # <<>>
         THEN <<L(4, <<"networks", ":">>)>>
                \o [i \in 1..Len(list("networks")) |->
                      L(6, <<"-", " ">> \o list("networks")[i].v)]
         ELSE <<>>,
       IF Truthy(Get(service, "labels"))
         THEN <<L(4, <<"labels", ":">>)>>
                \o [i \in 1..Len(map("labels")) |->
                      L(6, <<map("labels")[i][1], ":", " ", "\"">>
                             \o map("labels")[i][2].v \o <<"\"">>)]
         ELSE <<>>,
       IF Truthy(Get(service, "x-casaos"))
         THEN <<L(4, <<"x-casaos", ":">>)>>
                \o (IF Truthy(Get(Get(service, "x-casaos"), "volumes"))
                      THEN <<L(6, <<"volumes", ":">>)>>
                             \o Flatten([i \in 1..Len(casaos) |->
                                  <<L(8, <<"-", " ", "container", ":", " ">>
                                           \o Get(casaos[i], "container").v),
                                    L(10, <<"description", ":">>),
                                    L(12, <<"en_us", ":", " ">>
                                            \o Get(Get(casaos[i],
                                                       "description"),
                                                   "en_us").v)>>])
                      ELSE <<>>)
         ELSE <<>>,
       <<L(0, <<>>)>> >>)

\* lines 191-310
formatComposeYaml(compose) ==
  LET services == Get(compose, "services").v
      networks == IF Truthy(Get(compose, "networks"))
                    THEN Get(compose, "networks").v ELSE <<>>
      volumes == IF Truthy(Get(compose, "volumes"))
                   THEN Get(compose, "volumes").v ELSE <<>>
      casaos == Get(compose, "x-casaos")
      quoted(key) == <<L(2, <<key, ":">>),
                       L(4, <<"en_us", ":", " ", "\"">>
                              \o Get(Get(casaos, key), "en_us").v
                              \o <<"\"">>)>>
      plain(key) == L(2, <<key, ":", " ">> \o Get(casaos, key).v)
  IN Flatten(<<
       <<L(0, <<"name", ":", " ">> \o Get(compose, "name").v),
         L(0, <<>>),
         L(0, <<"services", ":">>)>>,
       Flatten([i \in 1..Len(services) |->
                  serviceLines(services[i][1], services[i][2])]),
       IF networks # <<>>
         THEN <<L(0, <<"networks", ":">>)>>
                \o Flatten([i \in 1..Len(networks) |->
                     <<L(2, <<networks[i][1], ":">>)>>
                       \o (IF Truthy(Get(networks[i][2], "external"))
                             THEN <<L(4, <<"external", ":", " ", "true">>)>>
                             ELSE <<>>)])
                \o <<L(0, <<>>)>>
         ELSE <<>>,
       IF volumes # <<>>
         THEN <<L(0, <<"volumes", ":">>)>>
                \o [i \in 1..Len(volumes) |->
                      L(2, volumes[i][1] \o <<":">>)]
                \o <<L(0, <<>>)>>
         ELSE <<>>,
       IF Truthy(casaos)
         THEN <<L(0, <<"x-casaos", ":">>),
                L(2, <<"architectures", ":">>)>>
                \o [i \in 1..Len(Get(casaos, "architectures").v) |->
                      L(4, <<"-", " ">> \o Get(casaos, "architectures").v[i].v)]
                \o <<plain("main")>>
                \o (IF Truthy(Get(casaos, "build"))
                      THEN <<plain("build")>> ELSE <<>>)
                \o <<plain("author"), plain("developer")>>
                \o quoted("tagline")
                \o <<plain("category")>>
                \o quoted("description")
                \o quoted("title")
         ELSE <<>> >>)

generateComposeMut(bot, detection, botDir) ==
  formatComposeYaml(
    generateComposeFile(bot, [detection EXCEPT !.hasDatabase = FALSE], botDir))

generateCompose(bot, detection, botDir) ==
  formatComposeYaml(generateComposeFile(bot, detection, botDir))

\* ---- compose texts that are transformed
\* A user's compose file: indented by 2 or 4 blanks, one or two services
\* with an image, with or without a build key and labels, then nothing, the
\* networks or x-casaos, with and without a line end after the last line.
LabelForms == {"none", "own", "list", "managed"}
BuildForms == {"none", "before", "after"}
TailForms == {"none", "networks", "main", "target"}

userService(unit, name, build, labels, bot) ==
  Flatten(<<
    <<L(unit, <<name, ":">>)>>,
    IF build = "before" THEN <<L(2 * unit, <<"build", ":", " ", ".">>)>>
    ELSE <<>>,
    <<L(2 * unit, <<"image", ":", " ", "node">>)>>,
    IF build = "after" THEN <<L(2 * unit, <<"build", ":", " ", ".">>)>>
    ELSE <<>>,
    CASE labels = "own" ->
           <<L(2 * unit, <<"labels", ":">>),
             L(3 * unit, <<"app", ":", " ", "x">>)>>
      [] labels = "list" ->
           <<L(2 * unit, <<"labels", ":">>),
             L(3 * unit, <<"-", " ", "app=x">>)>>
      [] labels = "managed" ->
           <<L(2 * unit, <<"labels", ":">>)>>
             \o [i \in 1..3 |-> L(3 * unit, labelLines(bot)[i].text)]
      [] OTHER -> <<>> >>)

userCompose(unit, services, tail, newline) ==
  Flatten(<<
    <<L(0, <<"services", ":">>)>>,
    services,
    CASE tail = "networks" ->
           <<L(0, <<"networks", ":">>), L(unit, <<"back", ":">>)>>
      [] tail = "main" ->
           <<L(0, <<"x-casaos", ":">>), L(unit, <<"main", ":", " ", "web">>)>>
      [] tail = "target" ->
           <<L(0, <<"x-casaos", ":">>), L(unit, <<"main", ":", " ", "web">>),
             L(unit, <<"build", ":", " ", "web">>)>>
      [] OTHER -> <<>>,
    IF newline THEN <<L(0, <<>>)>> ELSE <<>> >>)

TextBot == [id |-> "A", name |-> "n0"]

UserDocs ==
  {userCompose(unit,
               userService(unit, "web", build, labels, TextBot) \o db,
               tail, newline) :
     unit \in {2, 4}, build \in BuildForms, labels \in LabelForms,
     db \in {<<>>} \cup {userService(2, "db", "none", l, TextBot) :
                           l \in {"none", "own"}},
     tail \in TailForms, newline \in BOOLEAN}

\* Any text of at most MaxLines of these lines.
AnyLines ==
  {L(0, <<"services", ":">>), L(2, <<"web", ":">>), L(2, <<"db", ":">>),
   L(4, <<"image", ":", " ", "node">>), L(4, <<"labels", ":">>),
   L(6, <<"managed-by", ":", " ", "\"", "me", "\"">>),
   L(0, <<"networks", ":">>), L(0, <<>>),
   L(0, <<"version", ":", " ", "3">>), L(2, <<"ports", ":", " ", "[">>)}

\* What detectBotType found in a repository without a compose file, and the
\* bot with its update token and at most one variable of its own.
Detections ==
  [hasDockerfile : BOOLEAN, type : {"node", "compose"},
   hasDatabase : BOOLEAN, hasCompose : BOOLEAN]

GenerateBots ==
  {[id |-> "A", name |-> "n0",
    envVars |-> Map(e \o << <<"BOT_MANAGER_UPDATE_TOKEN", Str(t)>> >>)] :
     e \in {<<>>, << <<"MODE", Str(<<"a", " ", "b">>)>> >>,
            << <<"MODE", Str(<<"\"", "a">>)>> >>},
     t \in {<<>>, <<"tok">>}}

repoPath == <<"/bots/A/repo">>
imageName == <<"bot-A", ":", "latest">>

\* ---- adaptExistingCompose (templates/compose.ts, lines 346-399)
\* content.includes(key + ':'): the key is the end of a word that a ':'
\* follows, so 'name:' is found in 'bot-name:' and 'container_name:' too.
EndsWith(word, key) ==
  \/ word = key
  \/ key = "name" /\ word \in {"bot-name", "container_name", "hostname"}

IncludesKeyColon(lines, key) ==
  \E i \in 1..Len(lines) : \E k \in 1..(Len(lines[i].text) - 1) :
    EndsWith(lines[i].text[k], key) /\ lines[i].text[k + 1] = ":"

\* /^version:\s*['"]?\d+(\.\d+)?['"]?\s*\n/m
IsVersionLine(lines, i) ==
  /\ i < Len(lines)
  /\ lines[i].indent = 0
  /\ Len(lines[i].text) >= 3
  /\ SubSeq(lines[i].text, 1, 2) = <<"version", ":">>
  /\ \E n \in {"3", "3.8"}, q \in {<<>>, <<"\"">>}, w \in {<<>>, <<" ">>} :
       Drop(lines[i].text, 2) \in {w \o q \o <<n>> \o q,
                                   w \o q \o <<n>> \o q \o <<" ">>}

\* The empty lines after line i that the \s* of an expression takes with
\* it: those which a newline ends.
BlankRun(lines, i) ==
  LET stop == {j \in (i + 1)..Len(lines) :
                 lines[j].text # <<>> \/ j = Len(lines)}
  IN IF stop = {} THEN Len(lines)
     ELSE (CHOOSE j \in stop : \A k \in stop : j <= k) - 1

removeVersion(lines) ==
  LET at == {i \in 1..Len(lines) : IsVersionLine(lines, i)}
      first == CHOOSE i \in at : \A j \in at : i <= j
  IN IF at = {} THEN lines
     ELSE SubSeq(lines, 1, first - 1) \o Drop(lines, BlankRun(lines, first))

pcsNetwork == <<L(2, <<"pcs", ":">>), L(4, <<"external", ":", " ", "true">>)>>

\* content.replace(/networks:\s*\n/, 'networks:\n  pcs:\n    external: true\n')
insertPcsNetwork(lines) ==
  LET at == {i \in 1..(Len(lines) - 1) :
               /\ Len(lines[i].text) >= 2
               /\ \E k \in 1..(Len(lines[i].text) - 1) :
                    /\ lines[i].text[k] = "networks"
                    /\ lines[i].text[k + 1] = ":"
                    /\ \A m \in (k + 2)..Len(lines[i].text) :
                         lines[i].text[m] = " "}
      first == CHOOSE i \in at : \A j \in at : i <= j
      k == CHOOSE k \in 1..(Len(lines[first].text) - 1) :
             /\ lines[first].text[k] = "networks"
             /\ lines[first].text[k + 1] = ":"
             /\ \A m \in (k + 2)..Len(lines[first].text) :
                  lines[first].text[m] = " "
  IN IF at = {} THEN lines
     ELSE SubSeq(lines, 1, first - 1)
            \o <<L(lines[first].indent, SubSeq(lines[first].text, 1, k + 1))>>
            \o pcsNetwork
            \o Drop(lines, BlankRun(lines, first))

casaosLines(bot) ==
  <<L(0, <<"x-casaos", ":">>),
    L(2, <<"architectures", ":">>),
    L(4, <<"-", " ", "amd64">>),
    L(4, <<"-", " ", "arm64">>),
    L(2, <<"main", ":", " ", "bot">>),
    L(2, <<"author", ":", " ", "discord-bot-manager">>),
    L(2, <<"developer", ":", " ", "discord-bot-manager">>),
    L(2, <<"tagline", ":">>),
    L(4, <<"en_us", ":", " ", "\"", "Discord", " ", "Bot", ":", " ",
           bot.name, "\"">>),
    L(2, <<"category", ":", " ", "Utilities">>),
    L(2, <<"description", ":">>),
    L(4, <<"en_us", ":", " ", "\"", "Managed", " ", "Discord", " ", "bot",
           ":", " ", bot.name, "\"">>),
    L(2, <<"title", ":">>),
    L(4, <<"en_us", ":", " ", "\"", bot.name, "\"">>),
    L(0, <<>>)>>

\* The text that readFileSync gave, transformed step by step.  No step
\* parses it, and none throws.
adaptExistingCompose(content, bot) ==
  LET substituted ==
        [i \in 1..Len(content) |->
           L(content[i].indent,
             applyVariableSubstitution(content[i].text, bot))]
      unversioned == removeVersion(substituted)
      named == IF IncludesKeyColon(unversioned, "name") THEN unversioned
               ELSE <<L(0, <<"name", ":", " ", "bot-", bot.id>>),
                      L(0, <<>>)>> \o unversioned
      networked ==
        IF ~IncludesKeyColon(named, "networks")
          THEN named \o <<L(0, <<"networks", ":">>)>> \o pcsNetwork
                 \o <<L(0, <<>>)>>
        ELSE IF ~IncludesKeyColon(named, "pcs") THEN insertPcsNetwork(named)
        ELSE named
      labelled == addBotManagerLabels(networked, bot)
  IN IF IncludesKeyColon(labelled, "x-casaos") THEN labelled
     ELSE labelled \o casaosLines(bot)

AdaptBot ==
  [id |-> "A", name |-> "n0", PUID |-> <<"1000">>,
   envVars |-> [MODE |-> <<"m">>]]

TextInit ==
  /\ SubstQuiet
  /\ wst = NoQueue
  /\ det = NoDet
  /\ sub = NoSubst
  /\ \/ \E d \in UserDocs :
          doc = [pc |-> "text", shape |-> "compose", content |-> d]
     \/ \E d \in Texts(AnyLines, MaxLines) :
          doc = [pc |-> "text", shape |-> "any", content |-> d]
     \/ \E b \in GenerateBots, d \in Detections :
          doc = [pc |-> "repo", bot |-> b, detection |-> d]

\* addBotManagerLabels(D, B)
Label ==
  /\ doc.pc = "text"
  /\ doc' = [pc |-> "labelled", shape |-> doc.shape, content |-> doc.content,
             labelled |-> addBotManagerLabels(doc.content, TextBot)]
  /\ DocRest

\* addBotManagerLabels(addBotManagerLabels(D, B), B)
LabelAgain ==
  /\ doc.pc = "labelled"
  /\ doc' = [pc |-> "relabelled", shape |-> doc.shape,
             content |-> doc.content, labelled |-> doc.labelled,
             relabelled |-> addBotManagerLabels(doc.labelled, TextBot)]
  /\ DocRest

\* buildBot, lines 661-671 of containerManager: the build target is read
\* from the repository's compose file, the image is replaced in the
\* processed one
ReplaceImage ==
  /\ doc.pc = "labelled"
  /\ LET buildTarget == extractBuildTarget(doc.content)
     IN doc' = [pc |-> "built", shape |-> doc.shape, content |-> doc.content,
                labelled |-> doc.labelled, target |-> buildTarget,
                built |-> IF buildTarget # <<>>
                            THEN replaceServiceImageWithBuild(
                                   doc.labelled, buildTarget, repoPath,
                                   imageName)
                            ELSE doc.labelled]
  /\ DocRest

\* processExistingCompose(repoPath, botDir, bot) in buildBot: it returns
\* the adapted text, or throws and the build fails
Adapt ==
  /\ doc.pc = "text"
  /\ doc' = [pc |-> "adapted", shape |-> doc.shape, content |-> doc.content,
             threw |-> FALSE,
             adapted |-> adaptExistingCompose(doc.content, AdaptBot)]
  /\ DocRest

\* replaceServiceImageWithBuild applied to its own result with the same
\* arguments
ReplaceAgain ==
  /\ doc.pc = "built"
  /\ doc.target # <<>>
  /\ doc' = [pc |-> "rebuilt", shape |-> doc.shape, content |-> doc.content,
             target |-> doc.target, built |-> doc.built,
             rebuilt |-> replaceServiceImageWithBuild(
                           doc.built, doc.target, repoPath, imageName)]
  /\ DocRest

\* generateCompose(botWithEnv, detection, botDir)
Generate ==
  /\ doc.pc = "repo"
  /\ doc' = [pc |-> "generated", bot |-> doc.bot, detection |-> doc.detection,
             generated |-> generateCompose(doc.bot, doc.detection,
                                           <<"/bots/A">>)]
  /\ DocRest

TextNext == Label \/ LabelAgain \/ Adapt \/ ReplaceImage \/ ReplaceAgain \/ Generate

SpecText == TextInit /\ [][TextNext]_vars

\* ------------------------------------------------------------------ claims
Min(a, b) == IF a < b THEN a ELSE b

\* C5: the buffer of a log collector never holds more than 2000 entries, and
\* getLogs returns, in the order they were added, exactly the last
\* min(N, 2000) of the N entries added since the last clear.
C5_LogBounded ==
  LET got == getLogs(logs)
  IN /\ Len(got) <= maxLogs
     /\ Len(got) = Min(nadd, maxLogs)
     /\ \A i \in 1..Len(got) : got[i] = nadd - Len(got) + i

\* C5 witness: more than 2000 entries were added and the oldest are gone.
C5_Witness == nadd > maxLogs /\ Len(logs) = maxLogs /\ logs[1] = nadd - maxLogs + 1

\* The write queue has drained.
Drained == micro = <<>> /\ wq = <<>> /\ ~wbusy

\* C1: no registry update is lost: once the write queue has drained, bots.json
\* reflects every update issued (status, appName, edit), whether the updates
\* were for the same bot or for different bots.
C1_NoLostUpdate == Drained => file = ideal

StatusChange(b) ==
  file[b].exists /\ file'[b].exists /\ file[b].status # file'[b].status

SpecEdges ==
  { <<"stopped", "building">>, <<"building", "stopped">>,
    <<"building", "error">>, <<"stopped", "starting">>,
    <<"starting", "running">>, <<"starting", "error">>,
    <<"running", "stopping">>, <<"stopping", "stopped">>,
    <<"stopping", "error">> }

\* C2 as stated: across any sequence of build, start, stop, restart and
\* pull-and-rebuild calls, every change of a bot's persisted status follows one
\* of the nine edges; build and start are entered only from 'stopped'.
C2_NineEdges ==
  [][\A b \in BotIds :
       StatusChange(b) => <<file[b].status, file'[b].status>> \in SpecEdges]_vars

CodeEdges ==
  SpecEdges \cup { <<"error", "building">>, <<"error", "starting">>,
                   <<"running", "building">> }

\* C2 amended: every change of a bot's persisted status follows one of the
\* nine edges or error->building, error->starting, running->building: build is
\* entered from any settled status, start from 'stopped' or 'error'.
C2_CodeEdges ==
  [][\A b \in BotIds :
       StatusChange(b) => <<file[b].status, file'[b].status>> \in CodeEdges]_vars

\* C2 witness: a build issued on a bot in status 'error' has made it 'building'.
C2_Witness ==
  \E o \in OpIds :
    /\ ops[o].kind = "build"
    /\ ops[o].from = "error"
    /\ ops[o].pc \notin {"idle", "done"}
    /\ file[ops[o].bot].status = "building"

\* C3: when build, start, stop or pull-and-rebuild has begun work on an
\* existing bot and returns success = false, the bot's persisted status at
\* that moment is 'error'.
C3_FailureSetsError ==
  ( /\ lastRet.fn \in {"build", "start", "stop", "pull"}
    /\ lastRet.began
    /\ ~lastRet.ok
    /\ lastRet.exists )
  => lastRet.status = "error"

\* C4: every build and every start, of a git bot or of an image bot, clears
\* the log buffer at its start: at its first status change or first entry the
\* buffer holds no entry appended by an earlier operation.
C4_LogClearedAtStart ==
  \A o \in OpIds : ~ops[o].sstale /\ ~ops[o].bstale

\* C6: deleteBot on an existing bot proceeds maximally: stop and remove are
\* attempted for every tracked container id, no failing cleanup step aborts
\* the deletion, and it ends by removing the entry and returning true.
C6_DeleteMaximal ==
  \A o \in OpIds :
    (ops[o].kind = "delete" /\ ops[o].pc = "done" /\ ops[o].res # "false")
    => /\ ops[o].res = "true"
       /\ ops[o].mode = "docker" => ops[o].tracked \subseteq ops[o].tried
       /\ ~LatestReg(V)[ops[o].bot].exists

\* C7: once deleteBot(A) has returned true and its write has run, A is absent
\* from every later read of the registry, whatever calls were in flight.
C7_DeletedStaysAbsent == \A b \in deleted : ~file[b].exists

\* C8: after buildBot returns success = true, the persisted entry has status
\* 'stopped' and the app name resolved during that build.
C8_BuildPersistsAppName ==
  (lastRet.fn = "build" /\ lastRet.ok /\ lastRet.exists)
  => /\ lastRet.status = "stopped"
     /\ EffApp(lastRet.appName) = lastRet.resolved

\* C9: no operation on one bot changes or reverts the persisted entry of a
\* different bot: a registry write issued for bot a leaves every other bot's
\* entry in bots.json as it was.
C9_OtherBotsUntouched ==
  [][\A b \in BotIds :
       (micro # <<>> /\ Head(micro).k = "write" /\ Head(micro).by # b)
       => file'[b] = file[b]]_vars

\* C10: a bot whose persisted status is 'stopped' has an empty containerIds.
C10_StoppedHasNoContainers ==
  \A b \in BotIds :
    (file[b].exists /\ file[b].status = "stopped")
    => file[b].containerIds = <<>>

\* C11: the persisted updateToken and authHash of a bot stay the values
\* createBot generated, whatever update / build / start / stop / pull / sync
\* operations run, and buildSubstitutionVariables never draws a fresh
\* AUTH_HASH or API_HASH for a bot whose tokens are persisted.
C11_TokensImmutable ==
  /\ \A b \in BotIds :
       (file[b].exists /\ ideal[b].exists)
       => /\ file[b].updateToken = ideal[b].updateToken
          /\ file[b].authHash = ideal[b].authHash
          /\ file[b].authHash # NoToken
          /\ file[b].updateToken # NoToken
  /\ \A o \in OpIds : ~ops[o].gen

\* C11 witness: a bot that was edited and whose status was changed is built,
\* and the build substitutes the tokens the registry holds.
C11_Witness ==
  \E o \in OpIds :
    /\ ops[o].kind = "build"
    /\ file[ops[o].bot].name = "n1"
    /\ file[ops[o].bot].status = "building"
    /\ ops[o].vars.AUTH_HASH = file[ops[o].bot].authHash
    /\ ops[o].vars.API_HASH = file[ops[o].bot].updateToken
    /\ ops[o].vars.AUTH_HASH # NoToken

\* C12: the post-install command of a bot runs at most once over the bot's
\* lifetime: under any sequence or interleaving of start / stop / restart /
\* build calls it never runs again once it has run for a start that reached
\* 'running'.
C12_PostInstallOnce == \A b \in BotIds : post[b] # "again"

\* C13: in CasaOS mode a build whose pre-install command failed returns
\* success = false with the bot's status 'error', and that build has neither
\* written the compose file nor started the image build.
C13_PreInstallAborts ==
  lastRet.fn = "build" /\ lastRet.pre = "failed" =>
    /\ ~lastRet.ok
    /\ lastRet.exists => lastRet.status = "error"
    /\ ~lastRet.wrote
    /\ ~lastRet.imaged

C13_Witness ==
  /\ lastRet.fn = "build"
  /\ lastRet.pre = "failed"
  /\ lastRet.exists
  /\ cachedMode = "casaos"
  /\ ~composeFile[lastRet.bot]

\* C14: a start calls the deploy step (deployApp, createBotContainer) only
\* while the bot's compose file exists; a start that found the file missing
\* deploys only after the build it ran succeeded; and a start whose build
\* failed never deploys and returns failure.
C14_SelfHealingStart ==
  \A o \in OpIds :
    LET f == ops[o]
    IN /\ f.dep # "none" => f.dep = "compose"
       /\ f.chk = "missing" /\ f.dep # "none" => f.nb = "ok"
       /\ f.nb = "failed" =>
            /\ f.dep = "none"
            /\ f.pc = "done" /\ f.res = "false"

C14_Witness ==
  \E o \in OpIds :
    /\ ops[o].kind = "start"
    /\ ops[o].chk = "missing"
    /\ ops[o].nb = "failed"
    /\ ops[o].pc = "done"

\* The steps of a pull-and-rebuild of a bot that was (was not) running, the
\* removal of an image left aside.
PullOrder(was) ==
  (IF was THEN <<"stop">> ELSE <<>>) \o <<"pull", "build">> \o
  (IF was THEN <<"start">> ELSE <<>>)

IsPrefix(s, t) == Len(s) <= Len(t) /\ s = SubSeq(t, 1, Len(s))

\* C15: pull-and-rebuild calls stop (only for a bot that was running), the
\* source pull, the removal of the cached image, build (with no cached image
\* left) and start (only for a bot that was running), in that order; and
\* when it returns success the bot's status is 'running' exactly when it was
\* 'running' at the call.
C15_PullOrder ==
  \A o \in OpIds :
    LET f == ops[o]
        core == SelectSeq(f.steps, LAMBDA x : x # "rmi")
    IN f.kind = "pull" =>
         /\ IsPrefix(core, PullOrder(f.wasRunning))
         /\ \A i \in DOMAIN f.steps :
              f.steps[i] = "rmi" =>
                /\ i > 1 /\ f.steps[i - 1] = "pull"
                /\ i < Len(f.steps) /\ f.steps[i + 1] = "build"
         /\ f.pc = "done" /\ f.res = "true" =>
              /\ core = PullOrder(f.wasRunning)
              /\ lastRet.bot = f.bot /\ lastRet.exists
              /\ (lastRet.status = "running") = f.wasRunning

C15_Witness ==
  \E o \in OpIds :
    /\ ops[o].kind = "pull"
    /\ ops[o].pc = "done"
    /\ ops[o].res = "true"
    /\ ops[o].steps = <<"stop", "pull", "rmi", "build", "start">>

\* C16: when the timeout of a deploy expires, the process is sent SIGTERM
\* first and the call resolves to the timeout error; a process that is still
\* alive when the grace window has passed has been sent SIGKILL.
C16_TimeoutKills ==
  dp.timer = "fired" =>
    /\ dp.res = "timeout"
    /\ dp.sigs # <<>> => dp.sigs[1] = "SIGTERM"
    /\ dp.grace = "fired" /\ dp.alive =>
         \E i \in DOMAIN dp.sigs : dp.sigs[i] = "SIGKILL"

\* C17: a stop whose teardown failed (the compose-down failed, or the stop or
\* the removal of a tracked container failed) returns success = false and
\* leaves the bot's status 'error'.
C17_StopFailureIsError ==
  lastRet.fn = "stop" /\ lastRet.tdfail =>
    ~lastRet.ok /\ lastRet.status = "error"

\* C18: when a build or a start that began has returned failure, the last
\* entry this call appended to the bot's log buffer has severity 'error',
\* whatever the bot's source type.
C18_FailureLogsError ==
  lastRet.fn \in {"build", "start"} /\ ~lastRet.ok /\ lastRet.began =>
    LET own == SelectSeq(log[lastRet.bot], LAMBDA e : e.tag > 4 * nops)
    IN own # <<>> /\ own[Len(own)].type = "error"

\* The entries numbered lo..hi, in order.
Entries(lo, hi) == [i \in 1..(hi - lo + 1) |-> lo + i - 1]

\* C19 (as stated): a connected stream client has received every entry
\* appended since the last clear, once each and in append order.
C19_StreamComplete ==
  sse.state = "open" => sse.got = Entries(1, nadd)

\* C19 (amended): a connected stream client has received the entries the
\* buffer held when it connected (the last min(N, 2000) of the N appended
\* since the last clear) and every entry appended since, once each and in
\* append order.
C19_StreamRetained ==
  sse.state = "open" =>
    sse.got = Entries(sse.base - Min(sse.base, maxLogs) + 1, nadd)

C19_Witness ==
  /\ sse.state = "open"
  /\ sse.base > maxLogs
  /\ nadd > sse.base

\* C20: for a bot whose variable values hold no placeholder-shaped text,
\* substituting the result of a substitution again changes nothing.
C20_SubstitutionIdempotent ==
  sub.pc = "twice" => sub.twice = sub.once

\* The text in which every placeholder of a variable has become that
\* variable's value at once, and nothing else has changed: '${key}' and a
\* '$key' that no word follows.
Placeholder(s, key) ==
  IF Len(s) >= 4 /\ SubSeq(s, 1, 4) = <<"$", "{", key, "}">> THEN 4
  ELSE IF /\ Len(s) >= 2
          /\ SubSeq(s, 1, 2) = <<"$", key>>
          /\ (Len(s) >= 3 => s[3] \notin WordTokens) THEN 2
  ELSE 0

RECURSIVE Substituted(_, _)
Substituted(s, entries) ==
  IF s = <<>> THEN <<>>
  ELSE LET hit == {i \in 1..Len(entries) : Placeholder(s, entries[i][1]) > 0}
       IN IF hit = {} THEN <<Head(s)>> \o Substituted(Tail(s), entries)
          ELSE LET e == entries[CHOOSE i \in hit : TRUE]
               IN e[2] \o Substituted(Drop(s, Placeholder(s, e[1])), entries)

\* Every '$' of the text starts '${key}' or '$key' for a variable.
RECURSIVE OnlyVariables(_, _)
OnlyVariables(s, entries) ==
  IF s = <<>> THEN TRUE
  ELSE LET keys == {entries[i][1] : i \in 1..Len(entries)}
           braced == Len(s) >= 4 /\ s[2] = "{" /\ s[3] \in keys /\ s[4] = "}"
           bare == Len(s) >= 2 /\ s[2] \in keys
       IN IF Head(s) # "$" THEN OnlyVariables(Tail(s), entries)
          ELSE IF braced THEN OnlyVariables(Drop(s, 4), entries)
          ELSE bare /\ OnlyVariables(Drop(s, 2), entries)

\* C21: in a text whose every '$' starts a placeholder of a variable, each
\* '${NAME}' and each '$NAME' that no identifier character follows is
\* replaced by exactly the variable's value, the same text for both forms,
\* and a '$NAME' that an identifier character follows is left as it is.
C21_PlaceholdersReplaced ==
  (sub.pc = "once" /\ OnlyVariables(sub.compose, VarEntries(SubstBot)))
    => sub.once = Substituted(sub.compose, VarEntries(SubstBot))

\* C22: when no value holds a '$', every placeholder of a name that is no
\* variable and every character outside the placeholders is in the output
\* as it was in the input.
C22_RestUntouched ==
  (sub.pc = "once" /\ "$" \notin Range(sub.PUID) \cup Range(sub.MODE))
    => sub.once = Substituted(sub.compose, VarEntries(SubstBot))

\* The services of a compose document, <<name, service>> in declared order.
ServicesOf(content) == Get(parseDocument(content), "services").v

EnvironmentOf(content, i) == Get(ServicesOf(content)[i][2], "environment")

\* C24: applying the PUID/PGID injection of applyPCSProcessing twice gives
\* every service the environment section that applying it once gives, for
\* the list and for the mapping form: nothing is added a second time.
C24_IdentityIdempotent ==
  doc.pc = "twice" =>
    /\ Len(ServicesOf(doc.twice)) = Len(ServicesOf(doc.once))
    /\ \A i \in 1..Len(ServicesOf(doc.once)) :
         EnvironmentOf(doc.twice, i) = EnvironmentOf(doc.once, i)

\* A list environment and a mapping environment, both without PUID, have
\* received it in the first application, and the second has been made.
C24_Witness ==
  /\ doc.pc = "twice"
  /\ Len(ServicesOf(doc.compose)) = 2
  /\ EnvironmentOf(doc.compose, 1).t = "list"
  /\ EnvironmentOf(doc.compose, 2).t = "map"
  /\ \A i \in 1..2 :
       /\ ~hasPUIDInEnv(EnvironmentOf(doc.compose, i))
       /\ hasPUIDInEnv(EnvironmentOf(doc.once, i))

\* The entries of an environment section that set the variable K, whatever
\* the case of the key.
Declared(env, K) ==
  IF env.t = "list"
    THEN SelectSeq(env.v, LAMBDA e : /\ e.t = "str"
                                     /\ Len(e.v) >= 2
                                     /\ toUpperCase(e.v[1]) = K
                                     /\ e.v[2] = "=")
  ELSE IF env.t = "map"
    THEN SelectSeq(env.v, LAMBDA e : toUpperCase(e[1]) = K)
  ELSE <<>>

\* C26: a PUID or PGID entry that a service declares (list or mapping form,
\* any case of the key) has the same value and occurs as often after
\* applyPCSProcessing as before.
C26_ExplicitKept ==
  doc.pc = "once" =>
    \A i \in 1..Len(ServicesOf(doc.compose)), K \in {"PUID", "PGID"} :
      Declared(EnvironmentOf(doc.compose, i), K) # <<>> =>
        Declared(EnvironmentOf(doc.once, i), K)
          = Declared(EnvironmentOf(doc.compose, i), K)

VolumesOf(content, i) ==
  LET volumes == Get(ServicesOf(content)[i][2], "volumes")
  IN IF volumes.t = "list" THEN volumes.v ELSE <<>>

\* The source of a volume entry: the text before the first ':' of the short
\* syntax, the source of the long syntax; and what else the entry says.
SourceOf(volume) ==
  IF volume.t = "str" THEN Head(Split(volume.v, ":"))
  ELSE IF Get(volume, "source").t = "str" THEN Get(volume, "source").v
  ELSE <<>>

AsideFromSource(volume) ==
  IF volume.t = "str" THEN Tail(Split(volume.v, ":"))
  ELSE Delete(volume, "source").v

StartsWithSentinel(volume) ==
  SourceOf(volume) # <<>> /\ Head(SourceOf(volume)) = "/DATA"

ContainerSide(entry) ==
  IF entry.t = "str"
    THEN LET parts == Split(entry.v, ":")
         IN Head(Split(parts[Len(parts)], "/"))
  ELSE IF entry.t = "num" THEN entry.v
  ELSE Get(entry, "target").v

\* The texts of a list in the order of their first occurrence, each once.
RECURSIVE FirstOccurrences(_)
FirstOccurrences(s) ==
  IF s = <<>> THEN <<>>
  ELSE LET init == FirstOccurrences(SubSeq(s, 1, Len(s) - 1))
       IN IF \E i \in 1..Len(init) : init[i] = s[Len(s)] THEN init
          ELSE Append(init, s[Len(s)])

PortsOf(content, i) == Get(ServicesOf(content)[i][2], "ports")

\* C28: a service with a list of ports has no ports key after
\* applyCasaOSMetadata, and its expose is the list of the container-side
\* port numbers of the entries, in the order of their first occurrence and
\* each once.
C28_PortsToExpose ==
  doc.pc = "metadata" =>
    \A i \in 1..Len(ServicesOf(doc.compose)) :
      LET ports == PortsOf(doc.compose, i)
          expected == FirstOccurrences(
                        [j \in 1..Len(ports.v) |->
                           Str(ContainerSide(ports.v[j]))])
      IN (ports.t = "list" /\ ports.v # <<>>) =>
           /\ PortsOf(doc.metadata, i) = Undefined
           /\ Get(ServicesOf(doc.metadata)[i][2], "expose") = List(expected)

\* The services that are the main service of a document: the one that
\* x-casaos.main names, else the first declared.
MainServices(content) ==
  {i \in 1..Len(ServicesOf(content)) :
     ServicesOf(content)[i][1] = getMainServiceName(parseDocument(content))}

NetworksOf(content, i) == Get(ServicesOf(content)[i][2], "networks")

\* How often a service names the network: as an element of the list form,
\* as a key of the mapping form.
Memberships(networks, net) ==
  IF networks.t = "list"
    THEN Len(SelectSeq(networks.v, LAMBDA n : n = Str(<<net>>)))
  ELSE IF networks.t = "map"
    THEN Len(SelectSeq(networks.v, LAMBDA e : e[1] = net))
  ELSE 0

DefinitionOf(content, net) ==
  Get(Get(parseDocument(content), "networks"), net)

\* C29: after applyPCSProcessing the main service names the configured
\* network exactly once, unless it declares a network_mode other than bridge,
\* and then its networks are as they were; the top-level networks define the
\* network: as it was defined, or as external: true when it was not defined.
C29_NetworkInjected ==
  doc.pc = "once" =>
    LET net == getPCSEnvironment(doc.env).REF_NET
        mode(i) == Get(ServicesOf(doc.compose)[i][2], "network_mode")
    IN /\ \A i \in MainServices(doc.compose) :
            IF mode(i).t = "str" /\ mode(i).v # <<"bridge">>
              THEN NetworksOf(doc.once, i) = NetworksOf(doc.compose, i)
              ELSE Memberships(NetworksOf(doc.once, i), net) = 1
       /\ DefinitionOf(doc.once, net)
            = IF DefinitionOf(doc.compose, net) = Undefined
                THEN Map(<< <<"external", Bool(TRUE)>> >>)
                ELSE DefinitionOf(doc.compose, net)

BlockEnd(lines, i) ==
  LET after == {j \in (i + 1)..Len(lines) :
                  lines[j].text # <<>> /\ lines[j].indent <= lines[i].indent}
  IN IF after = {} THEN Len(lines) + 1
     ELSE CHOOSE j \in after : \A k \in after : j <= k

\* The lines of the entries of the mapping or list under line i: those of
\* its block that are indented as the first of them.
ChildrenOf(lines, i) ==
  LET inner == {j \in (i + 1)..(BlockEnd(lines, i) - 1) : lines[j].text # <<>>}
      first == CHOOSE j \in inner : \A k \in inner : j <= k
  IN {j \in inner : lines[j].indent = lines[first].indent}

\* The key of a line 'key:' or 'key: value', and the value.
KeyOf(line) ==
  IF Len(line.text) >= 2 /\ line.text[2] = ":" THEN line.text[1] ELSE ""

ValueOf(line) ==
  IF Len(line.text) >= 4 THEN Drop(line.text, 3) ELSE <<>>

\* The lines of a top-level key, and the lines of the services.
TopLevel(lines, key) ==
  {i \in 1..Len(lines) : lines[i].indent = 0 /\ lines[i].text = <<key, ":">>}

ServiceLines(lines) ==
  UNION {{j \in ChildrenOf(lines, i) : KeyOf(lines[j]) # ""} :
           i \in TopLevel(lines, "services")}

\* The entries <<key, value>> of the key of a service, for a key that has
\* a mapping.
EntriesOf(lines, service, key) ==
  UNION {{<<KeyOf(lines[k]), ValueOf(lines[k])>> : k \in ChildrenOf(lines, j)} :
           j \in {j \in ChildrenOf(lines, service) :
                    lines[j].text = <<key, ":">>}}

CarriesLabels(lines, service, bot) ==
  {<<"managed-by", <<"\"", "discord-bot-manager", "\"">> >>,
   <<"bot-id", <<"\"", bot.id, "\"">> >>,
   <<"bot-name", <<"\"", bot.name, "\"">> >>}
    \subseteq EntriesOf(lines, service, "labels")

\* C25: every service of the compose document of a build, the user's
\* compose file after the label injection or the generated one, carries
\* the labels managed-by, bot-id and bot-name.
C25_EveryServiceLabelled ==
  /\ (doc.pc = "labelled" /\ doc.shape = "compose") =>
       \A s \in ServiceLines(doc.labelled) :
         CarriesLabels(doc.labelled, s, TextBot)
  /\ doc.pc = "generated" =>
       \A s \in ServiceLines(doc.generated) :
         CarriesLabels(doc.generated, s, doc.bot)

\* The services of the name that x-casaos.build gives.
TargetLines(lines, before) ==
  {s \in ServiceLines(lines) :
     \E x \in TopLevel(before, "x-casaos") : \E b \in ChildrenOf(before, x) :
       KeyOf(before[b]) = "build" /\ lines[s].text = ValueOf(before[b]) \o <<":">>}

KeyLines(lines, service, key) ==
  {j \in ChildrenOf(lines, service) : KeyOf(lines[j]) = key}

\* C30: when the compose file names a build target and that service has an
\* image, the service has after the build one build key, with the clone
\* path as context and the dockerfile Dockerfile, and one image key, with
\* the image bot-<id>:latest.
C30_BuildTargetBuilt ==
  (doc.pc = "built" /\ doc.shape = "compose") =>
    \A s \in TargetLines(doc.built, doc.content) :
      /\ Cardinality(KeyLines(doc.built, s, "build")) = 1
      /\ Cardinality(KeyLines(doc.built, s, "image")) = 1
      /\ EntriesOf(doc.built, s, "build")
           = {<<"context", repoPath>>, <<"dockerfile", <<"Dockerfile">> >>}
      /\ \A j \in KeyLines(doc.built, s, "image") :
           ValueOf(doc.built[j]) = imageName

\* C35: replacing the image of the build target in a document in which it
\* was replaced, with the same arguments, changes nothing.
C35_ReplaceIdempotent ==
  doc.pc = "rebuilt" => doc.rebuilt = doc.built

\* ---- the generated document
\* The repository of the bot has no compose file: detectBotType found none.
NoComposeFile ==
  ~doc.detection.hasCompose /\ doc.detection.type # "compose"

ServiceNames(lines) == {KeyOf(lines[s]) : s \in ServiceLines(lines)}

\* The service has a bind volume from source to target.
BindsVolume(lines, service, source, target) ==
  \E j \in KeyLines(lines, service, "volumes") :
    \E k \in ChildrenOf(lines, j) :
      /\ lines[k].text = <<"-", " ", "type", ":", " ", "bind">>
      /\ k + 2 <= Len(lines)
      /\ lines[k + 1].text = <<"source", ":", " ">> \o source
      /\ lines[k + 2].text = <<"target", ":", " ">> \o target

\* The service bot of the generated document: one service line of that
\* name, built from the clone, restarted unless stopped, with the data
\* directory of the bot at /app/data.
BotServiceGenerated ==
  /\ Cardinality({s \in ServiceLines(doc.generated) :
                    KeyOf(doc.generated[s]) = "bot"}) = 1
  /\ \A s \in ServiceLines(doc.generated) :
       KeyOf(doc.generated[s]) = "bot" =>
         /\ Cardinality(KeyLines(doc.generated, s, "build")) = 1
         /\ EntriesOf(doc.generated, s, "build")
              = {<<"context", <<"/bots/A", "/repo">> >>,
                 <<"dockerfile", <<"Dockerfile">> >>}
         /\ \E j \in KeyLines(doc.generated, s, "restart") :
              ValueOf(doc.generated[j]) = <<"unless-stopped">>
         /\ BindsVolume(doc.generated, s, <<"/bots/A", "/data">>,
                        <<"/app/data">>)

\* C31 as stated: the document generated for a repository without compose
\* file has the service bot, built from the clone, restarted unless
\* stopped, with the data volume, and no other service.
C31_OnlyBotService ==
  (doc.pc = "generated" /\ NoComposeFile) =>
    /\ BotServiceGenerated
    /\ Cardinality(ServiceLines(doc.generated)) = 1

\* C31: the document generated for a repository without compose file has
\* the service bot, built from the clone, restarted unless stopped, with
\* the data volume; it has the service db besides when the repository uses
\* a database, and no other service.
C31_BotServiceAndDatabase ==
  (doc.pc = "generated" /\ NoComposeFile) =>
    /\ BotServiceGenerated
    /\ ServiceNames(doc.generated)
         = IF doc.detection.hasDatabase THEN {"bot", "db"} ELSE {"bot"}
    /\ Cardinality(ServiceLines(doc.generated))
         = Cardinality(ServiceNames(doc.generated))

\* A document was generated for a repository without compose file that
\* uses a database.
C31_Witness ==
  /\ doc.pc = "generated"
  /\ NoComposeFile
  /\ doc.detection.hasDatabase
  /\ Len(doc.generated) > 0

\* ---- validateRequiredVariables (substitution/variables.ts)
\* A compose text is a sequence of tokens: "$", "{", "}", the two names of
\* the whitelist, "_2" for the letters that make a longer name of the name
\* before them, and " " for any other character.
VariableTokens == {"$", "{", "}", "DISCORD_TOKEN", "CLIENT_ID", "_2", " "}

\* [A-Za-z0-9_]: the tokens made of the characters of a name
NameTokens == {"DISCORD_TOKEN", "CLIENT_ID", "_2"}

requiredPatterns == <<"DISCORD_TOKEN", "CLIENT_ID">>

\* /\$\{?KEY\}?/.test(compose)
PatternTest(compose, envKey) ==
  \E i \in 1..Len(compose) :
    /\ compose[i] = "$"
    /\ \/ i + 1 <= Len(compose) /\ compose[i + 1] = envKey
       \/ /\ i + 2 <= Len(compose)
          /\ compose[i + 1] = "{"
          /\ compose[i + 2] = envKey

validateRequiredVariables(compose, bot) ==
  SelectSeq(requiredPatterns,
            LAMBDA envKey : /\ PatternTest(compose, envKey)
                            /\ ~Truthy(Get(bot.envVars, envKey)))

\* The environments of a bot: each name of the whitelist is not set, set to
\* the empty string or set to a value; or the bot has no envVars at all.
ValidateEnvs ==
  {Undefined}
  \cup {Map(SelectSeq(<< <<"DISCORD_TOKEN", d>>, <<"CLIENT_ID", c>> >>,
                      LAMBDA e : e[2] # Undefined)) :
          d \in {Undefined, Str(<<>>), Str(<<"tok">>)},
          c \in {Undefined, Str(<<"7">>)}}

ValidateInit ==
  /\ SubstQuiet
  /\ wst = NoQueue
  /\ det = NoDet
  /\ sub = NoSubst
  /\ \E d \in Texts(VariableTokens, MaxCompose), e \in ValidateEnvs :
       doc = [pc |-> "compose", compose |-> d, bot |-> [envVars |-> e]]

\* validateRequiredVariables(compose, bot)
Validate ==
  /\ doc.pc = "compose"
  /\ doc' = [pc |-> "validated", compose |-> doc.compose, bot |-> doc.bot,
             missing |-> validateRequiredVariables(doc.compose, doc.bot)]
  /\ DocRest

ValidateNext == Validate

SpecValidate == ValidateInit /\ [][ValidateNext]_vars

\* The text holds a placeholder $NAME or ${NAME} of exactly this name.
Occurs(compose, name) ==
  \E i \in 1..Len(compose) :
    /\ compose[i] = "$"
    /\ \/ /\ i + 1 <= Len(compose)
          /\ compose[i + 1] = name
          /\ i + 2 <= Len(compose) => compose[i + 2] \notin NameTokens
       \/ /\ i + 3 <= Len(compose)
          /\ compose[i + 1] = "{"
          /\ compose[i + 2] = name
          /\ compose[i + 3] = "}"

\* C33: validateRequiredVariables returns the names of the whitelist that
\* occur in the text as a placeholder of exactly that name and have no
\* value in the bot's environment (an empty value is no value), each once;
\* a placeholder of a longer name is no occurrence.
C33_MissingExactly ==
  doc.pc = "validated" =>
    /\ Range(doc.missing)
         = {name \in Range(requiredPatterns) :
              /\ Occurs(doc.compose, name)
              /\ ~Truthy(Get(doc.bot.envVars, name))}
    /\ Len(doc.missing) = Cardinality(Range(doc.missing))

\* A '[' that nothing closes: no text with such a line is a YAML document.
Unparsable(lines) ==
  \E i \in 1..Len(lines) :
    "[" \in Range(lines[i].text) /\ \A j \in i..Len(lines) :
                                      "]" \notin Range(lines[j].text)

\* C32: a compose text that cannot be parsed makes the transformation fail;
\* no text is returned for it.
C32_UnparsableFails ==
  (doc.pc = "adapted" /\ Unparsable(doc.content)) => doc.threw

\* C40: in the standalone docker mode, when no call is under way and the
\* writes are made, every container of an existing bot that exists in the
\* runtime is one of the bot's containerIds.
C40_NoUntrackedContainer ==
  (/\ hostMode = "docker"
   /\ Drained
   /\ \A o \in OpIds : ops[o].pc \in {"idle", "done"})
  => \A b \in BotIds :
       file[b].exists => live[b] \subseteq Range(file[b].containerIds)

\* ---- startup with two bots in the registry
\* What a previous run left of a bot: stopped, or running with container 1
\* tracked while the containers of its app that run now are none, that one,
\* another one, or two.
BootBots ==
  {[bot |-> NewBot("git"), live |-> {}]}
  \cup {[bot |-> [NewBot("git") EXCEPT !.status = "running",
                                       !.hasBeenStarted = TRUE,
                                       !.containerIds = <<DockerCid>>],
         live |-> l] : l \in SUBSET {DockerCid, ComposeCid}}

BootInit ==
  /\ hostMode \in {"docker", "casaos"}
  /\ \E a \in BootBots, b \in BootBots :
       /\ file = [x \in BotIds |-> IF x = "A" THEN a.bot ELSE b.bot]
       /\ live = [x \in BotIds |-> IF x = "A" THEN a.live ELSE b.live]
  /\ composeFile = [b \in BotIds |-> TRUE]
  /\ image = [b \in BotIds |-> TRUE]
  /\ micro = <<>>
  /\ wq = <<>>
  /\ wbusy = FALSE
  /\ ops = [o \in OpIds |-> IdleFrame]
  /\ nops = 0
  /\ log = [b \in BotIds |-> <<>>]
  /\ lgen = [b \in BotIds |-> 0]
  /\ cachedMode = "none"
  /\ ideal = file
  /\ boot = [Booted EXCEPT !.pc = "start"]
  /\ post = [b \in BotIds |-> "never"]
  /\ dp = NoDeploy
  /\ sse = NoStream
  /\ sub = NoSubst
  /\ doc = NoDoc
  /\ deleted = {}
  /\ lastRet = NoRet
  /\ serial = TRUE
  /\ logged = TRUE
  /\ logs = <<>>
  /\ nadd = 0
  /\ wst = NoQueue
  /\ det = NoDet

\* main(): syncContainerStates and the writes it queued; no API call yet
BootNext == SyncStart \/ SyncFinish \/ RunWrite \/ ChainTick

SpecBoot == BootInit /\ [][BootNext]_vars

\* C39: when syncContainerStates is over and the writes are made, every bot
\* persisted as running has running containers and tracks exactly those,
\* and every other bot, one that was running without container included, is
\* persisted as stopped without container ids.
C39_SyncedAll ==
  (boot.pc = "done" /\ Drained) =>
    \A b \in BotIds :
      /\ file[b].status \in {"running", "stopped"}
      /\ file[b].status = "running" =>
           live[b] # {} /\ Range(file[b].containerIds) = live[b]
      /\ file[b].status = "stopped" => file[b].containerIds = <<>>

\* ---- the write queue when a write can fail (lines 101-158)
\* writeQueue is a promise: fulfilled, pending while callbacks wait for their
\* turn, or rejected.  Writes are numbered in the order saveRegistry asked
\* for them.  ran: the operations that were called; saved: those that wrote
\* bots.json; skipped: those whose callback the promise never called;
\* content: the registry in bots.json, which is the status of bot A here.
QueueStart ==
  [state |-> "fulfilled", queued |-> <<>>, n |-> 0, ran |-> {}, saved |-> {},
   skipped |-> {}, content |-> "stopped"]

QueueInit ==
  /\ SubstQuiet
  /\ sub = NoSubst
  /\ doc = NoDoc
  /\ det = NoDet
  /\ wst = QueueStart

QueueRest ==
  UNCHANGED <<file, micro, wq, wbusy, ops, nops, log, lgen, composeFile,
              cachedMode, hostMode, live, ideal, deleted, lastRet, serial,
              logged, boot, post, image, dp, sse, sub, doc, logs, nadd, det>>

\* writeQueue = writeQueue.then(cb).catch(h): then() of a rejected promise
\* does not call cb; h logs and throws again, so the new promise is
\* rejected too.
queueWrite(q, id, registry) ==
  IF q.state = "rejected"
    THEN [q EXCEPT !.skipped = @ \cup {id}]
    ELSE [q EXCEPT !.state = "pending",
                   !.queued = Append(@, [id |-> id, registry |-> registry])]

\* saveRegistry(registry)
SaveRegistry ==
  /\ wst.n < MaxWrites
  /\ \E registry \in {"stopped", "running", "error"} :
       wst' = [queueWrite(wst, wst.n + 1, registry) EXCEPT !.n = wst.n + 1]
  /\ QueueRest

\* The callback of the first waiting write runs: operation() returns and
\* the promise is resolved.
WriteDone ==
  /\ wst.state = "pending"
  /\ wst.queued # <<>>
  /\ LET id == Head(wst.queued).id
     IN wst' = [wst EXCEPT !.queued = Tail(@),
                           !.ran = @ \cup {id},
                           !.saved = @ \cup {id},
                           !.content = Head(wst.queued).registry,
                           !.state = IF Tail(wst.queued) = <<>>
                                       THEN "fulfilled" ELSE "pending"]
  /\ QueueRest

\* saveRegistrySync throws (the disk is full, the directory is read-only):
\* the promise is rejected, and with it every promise chained to it.
WriteThrows ==
  /\ wst.state = "pending"
  /\ wst.queued # <<>>
  /\ LET id == Head(wst.queued).id
     IN wst' = [wst EXCEPT !.queued = <<>>,
                           !.ran = @ \cup {id},
                           !.skipped = @ \cup {wst.queued[i].id :
                                                 i \in 2..Len(wst.queued)},
                           !.state = "rejected"]
  /\ QueueRest

QueueNext == SaveRegistry \/ WriteDone \/ WriteThrows

SpecQueue == QueueInit /\ [][QueueNext]_vars

\* C36: a write that throws does not disable the queue: when nothing waits,
\* the operation of every write that was asked for has been called, and none
\* was passed over.
C36_QueueSurvivesFailure ==
  wst.state # "none" =>
    /\ wst.skipped = {}
    /\ wst.queued = <<>> => wst.ran = 1..wst.n

\* ---- the deployment mode (casaos/detector.ts)
\* config.json: missing, or the mode with its autoDetected flag.
NoConfig == [exists |-> FALSE, deploymentMode |-> "docker", autoDetected |-> FALSE]

Config(mode, auto) ==
  [exists |-> TRUE, deploymentMode |-> mode, autoDetected |-> auto]

\* A getDeploymentMode call.  must: the mode that the latest
\* setDeploymentMode set, when the call began after it and neither
\* setDeploymentMode nor clearCache was called since ("none" otherwise).
IdleGet == [pc |-> "idle", result |-> "none", must |-> "none"]

GetIds == 1..MaxGets

ModeInit ==
  /\ hostMode \in {"docker", "casaos"}
  /\ cachedMode = "none"
  /\ \E c \in {NoConfig, Config("docker", TRUE), Config("casaos", TRUE),
               Config("docker", FALSE), Config("casaos", FALSE)} :
       det = [pc |-> "run", config |-> c, calls |-> [g \in GetIds |-> IdleGet],
              lastSet |-> "none", nset |-> 0]
  /\ file = Registry("git")
  /\ micro = <<>>
  /\ wq = <<>>
  /\ wbusy = FALSE
  /\ ops = [o \in OpIds |-> IdleFrame]
  /\ nops = 0
  /\ log = [b \in BotIds |-> <<>>]
  /\ lgen = [b \in BotIds |-> 0]
  /\ composeFile = [b \in BotIds |-> FALSE]
  /\ live = [b \in BotIds |-> {}]
  /\ ideal = file
  /\ deleted = {}
  /\ lastRet = NoRet
  /\ serial = TRUE
  /\ logged = TRUE
  /\ boot = Booted
  /\ post = [b \in BotIds |-> "never"]
  /\ image = [b \in BotIds |-> FALSE]
  /\ dp = NoDeploy
  /\ sse = NoStream
  /\ sub = NoSubst
  /\ doc = NoDoc
  /\ wst = NoQueue
  /\ logs = <<>>
  /\ nadd = 0

ModeRest ==
  UNCHANGED <<file, micro, wq, wbusy, ops, nops, log, lgen, composeFile,
              hostMode, live, ideal, deleted, lastRet, serial, logged, boot,
              post, image, dp, sse, sub, doc, logs, nadd, wst>>

\* getDeploymentMode up to its return or its await (lines 66-80)
GetMode ==
  \E g \in GetIds :
    /\ det.pc = "run"
    /\ det.calls[g].pc = "idle"
    /\ \A h \in GetIds : h < g => det.calls[h].pc # "idle"
    /\ IF cachedMode # "none"
         THEN /\ det' = [det EXCEPT !.calls[g] =
                           [pc |-> "done", result |-> cachedMode,
                            must |-> det.lastSet]]
              /\ UNCHANGED cachedMode
         ELSE IF det.config.exists /\ ~det.config.autoDetected
           THEN /\ cachedMode' = det.config.deploymentMode
                /\ det' = [det EXCEPT !.calls[g] =
                             [pc |-> "done",
                              result |-> det.config.deploymentMode,
                              must |-> det.lastSet]]
           ELSE /\ det' = [det EXCEPT !.calls[g] =
                             [pc |-> "detecting", result |-> "none",
                              must |-> det.lastSet]]
                /\ UNCHANGED cachedMode
    /\ ModeRest

\* isCasaOSAvailable has answered: lines 83-91
DetectDone ==
  \E g \in GetIds :
    /\ det.calls[g].pc = "detecting"
    /\ cachedMode' = hostMode
    /\ det' = [det EXCEPT !.config = Config(hostMode, TRUE),
                          !.calls[g].pc = "done",
                          !.calls[g].result = hostMode]
    /\ ModeRest

\* A call that began before a setDeploymentMode or clearCache is no later
\* call of it.
Forget(calls) == [g \in GetIds |-> [calls[g] EXCEPT !.must = "none"]]

\* setDeploymentMode(mode)
SetMode ==
  \E mode \in {"docker", "casaos"} :
    /\ det.pc = "run"
    /\ det.nset < MaxSets
    /\ cachedMode' = mode
    /\ det' = [det EXCEPT !.config = Config(mode, FALSE),
                          !.calls = Forget(@),
                          !.lastSet = mode,
                          !.nset = @ + 1]
    /\ ModeRest

\* clearCache()
ClearCache ==
  /\ det.pc = "run"
  /\ det.nset < MaxSets
  /\ cachedMode' = "none"
  /\ det' = [det EXCEPT !.calls = Forget(@), !.lastSet = "none",
                        !.nset = @ + 1]
  /\ ModeRest

ModeNext == GetMode \/ DetectDone \/ SetMode \/ ClearCache

SpecMode == ModeInit /\ [][ModeNext]_vars

\* C37: after setDeploymentMode(m), and until the next setDeploymentMode or
\* clearCache, every getDeploymentMode call that begins returns m and
\* config.json holds m with autoDetected = false, also when a detection
\* that began earlier answers in between.
C37_SetModeSticks ==
  det.pc = "run" =>
    /\ \A g \in GetIds :
         (det.calls[g].pc = "done" /\ det.calls[g].must # "none")
         => det.calls[g].result = det.calls[g].must
    /\ det.lastSet # "none" => det.config = Config(det.lastSet, FALSE)

\* The call is one that the function rejects: the bot is unknown, a start
\* finds it running, a stop finds it not running.
Rejects(kind, b) ==
  \/ ~file[b].exists
  \/ kind = "start" /\ file[b].status = "running"
  \/ kind = "stop" /\ file[b].status # "running"

\* C38: a rejected build, start, stop or pull-and-rebuild returns
\* success = false in the step that calls it and changes neither the
\* registry, the writes waiting for it, a log buffer, nor the containers,
\* images and compose files.
C38_RejectedChangesNothing ==
  [][\A b \in BotIds, kind \in {"build", "start", "stop", "pull"} :
       (/\ nops' = nops + 1
        /\ ops'[nops + 1].kind = kind
        /\ ops'[nops + 1].bot = b
        /\ Rejects(kind, b))
       => /\ ops'[nops + 1].pc = "done"
          /\ ops'[nops + 1].res = "false"
          /\ file' = file
          /\ micro' = micro /\ wq' = wq /\ wbusy' = wbusy
          /\ log' = log
          /\ live' = live /\ image' = image /\ composeFile' = composeFile]_vars

\* A rejected call has returned: a stop of a bot that is not running, a
\* start of a running bot, or a build or pull-and-rebuild of an unknown bot.
C38_Witness ==
  \E o \in OpIds :
    /\ ops[o].pc = "done"
    /\ ops[o].res = "false"
    /\ \/ ops[o].kind = "stop" /\ file[ops[o].bot].status = "stopped"
                               /\ file[ops[o].bot].exists
       \/ ops[o].kind = "start" /\ file[ops[o].bot].status = "running"
       \/ ops[o].kind \in {"build", "pull"} /\ ~file[ops[o].bot].exists

\* ---------------------------------------------------------------------------
\* Termination of build, start, stop and pull.
\*
\* dockerClient.buildImage and dockerClient.pullImage spawn `docker build` /
\* `docker pull` and settle their promise in the 'close' and 'error' handlers
\* only: no timer is armed.  Every other subprocess on these paths is run with
\* a timeout option (execDocker, execAsync) or next to a timer that resolves
\* the promise (deployApp).
UntimedPcs == {"b_image", "b_pull"}

BuildPcs == {"b_mode", "b_pull", "b_pre", "b_meta", "b_image"}

\* The call that is suspended waits on a promise that a timer settles at the
\* latest.
TimedAwait == \A o \in OpIds : ops[o].pc \notin UntimedPcs

LiveCall ==
  /\ nops < MaxCalls
  /\ CallBuild \/ CallStart \/ CallStop \/ CallPull

LiveContinue == ContinueBuild \/ ContinueStart \/ ContinueStop \/ ContinuePull

ContinueTimed == TimedAwait /\ LiveContinue

ContinueUntimed == ~TimedAwait /\ LiveContinue

LiveNext ==
  \/ SyncStart
  \/ SyncFinish
  \/ RunWrite
  \/ ChainTick
  \/ Hop
  \/ LiveCall
  \/ ContinueTimed
  \/ ContinueUntimed

\* A suspended call can resume: its continuation is at the head of the
\* microtask queue, or its promise is one a subprocess or timer settles, and
\* that promise has a timer behind it.  This is ENABLED <<ContinueTimed>>_vars
\* written as a state predicate: the continuations have no other guard and
\* each of them changes ops.
CanContinueTimed ==
  /\ TimedAwait
  /\ \E o \in OpIds :
       /\ Ready(o)
       /\ ops[o].pc \in BuildPcs \cup StartPcs \cup StopPcs \cup PullPcs

\* WF_vars(ContinueTimed), with CanContinueTimed for its ENABLED.
ContinueTimedFair ==
  []<>(~CanContinueTimed) \/ []<><<ContinueTimed>>_vars

\* The event loop runs every job it holds, and a promise with a timer behind
\* it is settled; nothing settles the promise of a spawn without a timer
\* while the child keeps running.
LiveFairness ==
  /\ WF_vars(SyncStart)
  /\ WF_vars(SyncFinish)
  /\ WF_vars(RunWrite)
  /\ WF_vars(ChainTick)
  /\ WF_vars(Hop)
  /\ ContinueTimedFair

SpecLive == InitSerial /\ [][LiveNext]_vars /\ LiveFairness

Transient == {"building", "starting", "stopping"}

Returned(o) ==
  /\ ops[o].pc \in {"idle", "done"}
  /\ Drained
  /\ \A b \in BotIds : file[b].status \notin Transient

\* C34: every build, start, stop and pull invocation eventually returns and
\* leaves the bot in a status that is not transient (not building, starting
\* or stopping).
C34_EveryCallReturns ==
  \A o \in OpIds : (ops[o].pc \notin {"idle", "done"}) ~> Returned(o)

====
